---- MODULE Spec2Model ----
(***************************************************************************)
(* A model of the launch_sentiment pipeline: fetch_data, extract_data,     *)
(* transform_data and load_data, the files they write, the Postgres table  *)
(* they fill and the DAG that runs them.                                   *)
(*                                                                         *)
(* Text is modelled as what it is: a string is a sequence of one-character *)
(* strings, a line of the dump is the sequence of its whitespace-separated *)
(* tokens, a file is the sequence of the units written to it (compressed   *)
(* chunks, lines, CSV rows). A timestamp string is the tuple of its fields *)
(* <<hour, minute, utc offset in hours>>; the empty string is << >>.       *)
(***************************************************************************)
EXTENDS Integers, Sequences, FiniteSets, TLC

(***************************************************************************)
(* Bounds of the model.                                                    *)
(***************************************************************************)
\* Transactions load_data may begin in one behaviour (the value of NOW()).
MaxClock == 3
\* Completed downloads or decompressions counted per destination.
MaxWork == 2
\* Lines of a text file transform_data is called on by itself.
MaxLines == 2

(***************************************************************************)
(* Characters, tokens and numerals.                                        *)
(***************************************************************************)
Digits == <<"0", "1", "2", "3", "4", "5", "6", "7", "8", "9">>

\* The characters the model's titles use, in code point order.
Alphabet == <<"-", "0", "1", "2", "3", "4", "5", "6", "7", "8", "9",
              "A", "Z", "a", "d", "e", "l", "m", "n", "o", "p", "x", "z">>

IndexIn(seq, c) == CHOOSE i \in 1..Len(seq) : seq[i] = c

IsDigit(c) == \E i \in 1..Len(Digits) : Digits[i] = c

DigitVal(c) == IndexIn(Digits, c) - 1

Ord(c) == IndexIn(Alphabet, c)

RECURSIVE DigitsValue(_)
DigitsValue(ds) ==
    IF Len(ds) = 0 THEN 0
    ELSE 10 * DigitsValue(SubSeq(ds, 1, Len(ds) - 1)) + DigitVal(ds[Len(ds)])

AllDigits(ds) == Len(ds) > 0 /\ \A i \in 1..Len(ds) : IsDigit(ds[i])

\* Python's int(token): an optional sign, then one or more digits; anything
\* else raises ValueError (ok = FALSE).
ParseInt(tok) ==
    IF Len(tok) > 0 /\ tok[1] \in {"-", "+"}
    THEN LET ds == Tail(tok)
         IN  IF AllDigits(ds)
             THEN [ok |-> TRUE,
                   val |-> IF tok[1] = "-" THEN 0 - DigitsValue(ds) ELSE DigitsValue(ds)]
             ELSE [ok |-> FALSE, val |-> 0]
    ELSE IF AllDigits(tok)
         THEN [ok |-> TRUE, val |-> DigitsValue(tok)]
         ELSE [ok |-> FALSE, val |-> 0]

RECURSIVE NatStr(_)
NatStr(n) ==
    IF n < 10 THEN <<Digits[n + 1]>>
    ELSE NatStr(n \div 10) \o <<Digits[(n % 10) + 1]>>

\* Python's str(n) of an int, as csv.writer writes it.
Str(n) == IF n < 0 THEN <<"-">> \o NatStr(0 - n) ELSE NatStr(n)

\* s < t in Python's string order (by code point, a prefix first).
RECURSIVE StrLess(_, _)
StrLess(s, t) ==
    IF Len(t) = 0 THEN FALSE
    ELSE IF Len(s) = 0 THEN TRUE
    ELSE IF s[1] = t[1] THEN StrLess(Tail(s), Tail(t))
    ELSE Ord(s[1]) < Ord(t[1])

\* sorted(S) of a set of strings.
RECURSIVE Sorted(_)
Sorted(S) ==
    IF S = {} THEN << >>
    ELSE LET m == CHOOSE x \in S : \A y \in S \ {x} : StrLess(x, y)
         IN  <<m>> \o Sorted(S \ {m})

Range(seq) == {seq[i] : i \in 1..Len(seq)}

IsPrefix(s, t) == Len(s) <= Len(t) /\ SubSeq(t, 1, Len(s)) = s

(***************************************************************************)
(* The words of the model.                                                 *)
(***************************************************************************)
en == <<"e", "n">>
de == <<"d", "e">>
Amazon == <<"A", "m", "a", "z", "o", "n">>
Apple == <<"A", "p", "p", "l", "e">>
Zoom == <<"Z", "o", "o", "m">>

\* target_companies of the DAG, cut to two titles.
target_companies == {Amazon, Apple}

(***************************************************************************)
(* Dump lines. line.split() of a line is the sequence of its tokens.       *)
(***************************************************************************)
Line(domain_code, page_title, view_count) ==
    <<domain_code, page_title, view_count, <<"0">>>>

AmazonSeven == Line(en, Amazon, <<"7">>)
AmazonFive == Line(en, Amazon, <<"5">>)
AppleThree == Line(en, Apple, <<"3">>)
GermanAmazon == Line(de, Amazon, <<"9">>)
ZoomNine == Line(en, Zoom, <<"9">>)
AmazonNegative == Line(en, Amazon, <<"-", "4">>)
AmazonNotANumber == Line(en, Amazon, <<"x", "1">>)
ShortLine == <<en, Amazon, <<"9">>>>

(***************************************************************************)
(* gzip. A compressed file is a sequence of chunks, one per line, closed   *)
(* by the end-of-stream trailer; a file cut short has no trailer.          *)
(***************************************************************************)
Deflate(line) == [kind |-> "deflate", line |-> line]

Trailer == [kind |-> "eos", line |-> << >>]

Gzip(lines) == [i \in 1..Len(lines) |-> Deflate(lines[i])] \o <<Trailer>>

\* What gzip.open(...) yields after reading n chunks of data: the next line,
\* the end of the stream, or an error (the data ends before the trailer).
GzRead(data, n) ==
    IF n >= Len(data) THEN [event |-> "error", line |-> << >>]
    ELSE IF data[n + 1].kind = "eos" THEN [event |-> "eof", line |-> << >>]
    ELSE IF data[n + 1].kind = "hole" THEN [event |-> "error", line |-> << >>]
    ELSE [event |-> "line", line |-> data[n + 1].line]

(***************************************************************************)
(* Timestamps. data_interval_end is a UTC datetime [hour, minute] of the   *)
(* one day the model covers.                                               *)
(***************************************************************************)
EmptyString == << >>

\* data_interval_end.isoformat()
IsoFormat(dt) == <<dt.hour, dt.minute, 0>>

\* data_interval_end.strftime('%Y%m%d-%H0000'): the minutes are not printed.
HourEnd(dt) == dt.hour

\* Postgres' %s::timestamptz: the instant a timestamp string names, in
\* minutes of the day at UTC; a string that is no timestamp is an error.
TimestampTz(s) ==
    IF Len(s) = 3
    THEN [ok |-> TRUE, t |-> (s[1] - s[3]) * 60 + s[2]]
    ELSE [ok |-> FALSE, t |-> 0]

(***************************************************************************)
(* Paths: a directory under data_dir, the file's stem and its dot-         *)
(* separated extensions.                                                   *)
(***************************************************************************)
MkPath(dir, stem, exts) == [dir |-> dir, stem |-> stem, exts |-> exts]

raw_gzip_path(dt) == MkPath("raw", HourEnd(dt), <<"gz">>)

extracted_text_path(dt) == MkPath("extracted", HourEnd(dt), <<"txt">>)

transformed_csv_path(dt) == MkPath("transformed", HourEnd(dt), <<"csv">>)

\* Path.suffix: the last extension.
Suffix(path) ==
    IF Len(path.exts) = 0 THEN << >> ELSE <<path.exts[Len(path.exts)]>>

\* Path.with_suffix(suffix): the last extension replaced.
WithSuffix(path, suffix) ==
    [path EXCEPT !.exts =
        (IF Len(path.exts) = 0 THEN << >>
         ELSE SubSeq(path.exts, 1, Len(path.exts) - 1)) \o suffix]

\* A writer that writes where it publishes.
AppendTmp_InPlace(path) == path

\* fetch_data and transform_data: output_path.with_suffix(output_path.suffix + ".tmp")
AppendTmp(path) == WithSuffix(path, Suffix(path) \o <<"tmp">>)

\* extract_data writing where it publishes.
ReplaceByTmp_InPlace(path) == path

\* extract_data: output_path.with_suffix(".tmp")
ReplaceByTmp(path) == WithSuffix(path, <<"tmp">>)

(***************************************************************************)
(* transform_data's aggregation and the CSV it writes.                     *)
(***************************************************************************)
\* The loop body without the check of the domain code.
Accumulate_AnyProject(totals, line) ==
    LET parts == line
    IN  IF Len(parts) < 4 THEN totals
        ELSE IF parts[2] \notin DOMAIN totals THEN totals
        ELSE LET view_count == ParseInt(parts[3])
             IN  IF ~view_count.ok THEN totals
                 ELSE IF view_count.val < 0 THEN totals
                 ELSE [totals EXCEPT ![parts[2]] = @ + view_count.val]

\* The loop body counting a negative view_count like any other.
Accumulate_NoSignCheck(totals, line) ==
    LET parts == line
    IN  IF Len(parts) < 4 THEN totals
        ELSE IF parts[1] /= en THEN totals
        ELSE IF parts[2] \notin DOMAIN totals THEN totals
        ELSE LET view_count == ParseInt(parts[3])
             IN  IF ~view_count.ok THEN totals
                 ELSE [totals EXCEPT ![parts[2]] = @ + view_count.val]

\* The loop body taking a line of 3 tokens for a whole one.
Accumulate_ShortLineCounted(totals, line) ==
    LET parts == line
    IN  IF Len(parts) < 3 THEN totals
        ELSE IF parts[1] /= en THEN totals
        ELSE IF parts[2] \notin DOMAIN totals THEN totals
        ELSE LET view_count == ParseInt(parts[3])
             IN  IF ~view_count.ok THEN totals
                 ELSE IF view_count.val < 0 THEN totals
                 ELSE [totals EXCEPT ![parts[2]] = @ + view_count.val]

\* One pass of the loop body over a line.
Accumulate(totals, line) ==
    LET parts == line
    IN  IF Len(parts) < 4 THEN totals
        ELSE IF parts[1] /= en THEN totals
        ELSE IF parts[2] \notin DOMAIN totals THEN totals
        ELSE LET view_count == ParseInt(parts[3])
             IN  IF ~view_count.ok THEN totals
                 ELSE IF view_count.val < 0 THEN totals
                 ELSE [totals EXCEPT ![parts[2]] = @ + view_count.val]

RECURSIVE Scan(_, _)
Scan(totals, lines) ==
    IF Len(lines) = 0 THEN totals
    ELSE Scan(Accumulate(totals, lines[1]), Tail(lines))

\* Accumulators made when a title is first met, none at the start.
InitTotals_Lazy(companies) == [company \in {} |-> 0]

\* Line 64: one accumulator per company, at 0.
InitTotals(companies) == [company \in companies |-> 0]

\* totals after the whole stream.
Totals(lines, companies) == Scan(InitTotals(companies), lines)

\* What one pass of the loop body leaves: the totals, and the exception that
\* leaves the loop, of which there is none: the length check comes before
\* parts[2] is read, and int()'s ValueError is caught.
LineOutcome(totals, line) ==
    [totals |-> Accumulate(totals, line), error |-> "none"]

Header == [kind |-> "header",
           row |-> <<"company_name", "pageviews", "hour_timestamp">>]

\* A data row written in another order than the header's.
DataRow_HourFirst(company, total, hour) ==
    [kind |-> "data", row |-> <<hour, Str(total), company>>]

DataRow(company, total, hour) ==
    [kind |-> "data", row |-> <<company, Str(total), hour>>]

\* The rows written in the reverse of the sorted order.
CsvOf_Descending(totals, target_hour_timestamp) ==
    LET order == Sorted(DOMAIN totals)
        last == Len(order)
    IN  <<Header>> \o
        [i \in 1..last |->
            DataRow(order[last + 1 - i], totals[order[last + 1 - i]],
                    target_hour_timestamp)]

\* Everything transform_data writes to tmp_path, in order.
CsvOf(totals, target_hour_timestamp) ==
    LET order == Sorted(DOMAIN totals)
    IN  <<Header>> \o
        [i \in 1..Len(order) |->
            DataRow(order[i], totals[order[i]], target_hour_timestamp)]

(***************************************************************************)
(* load_data's reading of the CSV (csv.DictReader).                        *)
(***************************************************************************)
ColumnOf(header, name) ==
    IF \E i \in 1..Len(header.row) : header.row[i] = name
    THEN CHOOSE i \in 1..Len(header.row) : header.row[i] = name
    ELSE 0

\* rows, or the error raised while reading: a missing column (KeyError) or a
\* pageviews cell int() rejects (ValueError).
ReadCsv(data) ==
    IF Len(data) = 0 THEN [ok |-> TRUE, rows |-> << >>]
    ELSE LET header == data[1]
             c == ColumnOf(header, "company_name")
             p == ColumnOf(header, "pageviews")
             h == ColumnOf(header, "hour_timestamp")
             body == Tail(data)
         IN  IF Len(body) > 0 /\ (c = 0 \/ p = 0 \/ h = 0)
             THEN [ok |-> FALSE, rows |-> << >>]
             ELSE IF \E i \in 1..Len(body) : ~ParseInt(body[i].row[p]).ok
             THEN [ok |-> FALSE, rows |-> << >>]
             ELSE [ok |-> TRUE,
                   rows |-> [i \in 1..Len(body) |->
                       [company_name |-> body[i].row[c],
                        pageviews |-> ParseInt(body[i].row[p]).val,
                        hour_timestamp |-> body[i].row[h]]]]

(***************************************************************************)
(* The state.                                                              *)
(***************************************************************************)
VARIABLES
    remote,     \* url -> the bytes the remote source serves for it (fixed)
    fs,         \* path -> [exists, data]: the local files
    table,      \* pageviews_hourly as committed: [exists, rows]
    clock,      \* the database's clock: transactions begun so far
    pc,         \* process -> where it stands in the function it runs
    loc,        \* process -> the locals of that function, and its result
    dag,        \* the DAG run: the task that is due and the tries it has used
    completed   \* path -> how often a writer has published it (saturating)

vars == <<remote, fs, table, clock, pc, loc, dag, completed>>

\* default_args["retries"]
Retries == 3

Procs == {1, 2}

\* The data_interval_end values of the runs.
FivePm == [hour |-> 17, minute |-> 0]

LogicalDates == {FivePm}

\* The data_interval_end of the run of the next hour.
SixPm == [hour |-> 18, minute |-> 0]

\* wikimedia_url is keyed, like the paths, by hour_end.
wikimedia_url(dt) == HourEnd(dt)

Urls == {wikimedia_url(dt) : dt \in LogicalDates}

OutputPaths ==
    UNION {{raw_gzip_path(dt), extracted_text_path(dt), transformed_csv_path(dt)} :
           dt \in LogicalDates}

\* The temporary path each writer uses for an output path.
TmpPaths ==
    UNION {{AppendTmp(raw_gzip_path(dt)), ReplaceByTmp(extracted_text_path(dt)),
            AppendTmp(transformed_csv_path(dt))} : dt \in LogicalDates}

\* The files of the model: those of the runs, and the CSV of the next
\* hour's run for a load_data that is at work next to this hour's.
Paths == OutputPaths \cup TmpPaths \cup {transformed_csv_path(SixPm)}

NoFile == [exists |-> FALSE, data |-> << >>]

File(data) == [exists |-> TRUE, data |-> data]

\* An open file is written through its handle at the handle's offset, and
\* the handle stays with the file when the file is renamed or unlinked. The
\* model keeps, for the handle a writer has open, the path its file is at
\* now (Nowhere: no handle, or its file has no name any more), and writes
\* the unit at the writer's offset; what a write leaves unwritten below its
\* offset reads as zero bytes (Hole).
Nowhere == << >>

Hole(fn) ==
    CASE fn = "fetch" -> [kind |-> "hole", line |-> << >>]
      [] fn = "extract" -> << <<"NUL">> >>
      [] fn = "transform" -> [kind |-> "hole", row |-> << >>]

WriteAt(data, n, unit, hole) ==
    [i \in 1..(IF n + 1 > Len(data) THEN n + 1 ELSE Len(data)) |->
        IF i = n + 1 THEN unit
        ELSE IF i <= Len(data) THEN data[i]
        ELSE hole]

\* The files after process p has written unit at its offset.
Written(p, unit) ==
    IF loc[p].at = Nowhere THEN fs
    ELSE [fs EXCEPT ![loc[p].at].data =
             WriteAt(@, loc[p].n, unit, Hole(loc[p].fn))]

\* The handles after the file at path from has got the name to (or none).
Retarget(l, from, to) ==
    [q \in DOMAIN l |-> IF l[q].at = from THEN [l[q] EXCEPT !.at = to] ELSE l[q]]

\* os.replace(tmp, output), tmp being there: the handles on the file that
\* was at output lose it, those on the file at tmp follow it.
Replaced(l, tmp, output) == Retarget(Retarget(l, output, Nowhere), tmp, output)

NoTable == [exists |-> FALSE, rows |-> << >>]

NoResult == [status |-> "none", value |-> << >>]

\* What a caller remembers of the call it made before, while the CSV it
\* passed is still the one at the path: the function, the hour, how the
\* call ended.
NoCall == [fn |-> "none", hour |-> << >>, status |-> "none"]

CallBefore(frame) ==
    IF frame.fn = "load" /\ frame.result.status = "ok"
    THEN [fn |-> "load", hour |-> frame.hour, status |-> "ok"]
    ELSE NoCall

Idle == [fn |-> "none", url |-> 0, input |-> << >>, output |-> << >>,
         hour |-> << >>, companies |-> {}, tmp |-> << >>, n |-> 0,
         todo |-> << >>, totals |-> << >>, work |-> NoTable, base |-> NoTable,
         conn |-> "none", now |-> 0,
         conflict |-> "none", result |-> NoResult, pre |-> << >>,
         prev |-> NoCall, at |-> Nowhere]

\* The remote resources a behaviour may be about: well-formed dumps, and one
\* the source serves cut short.
Resources ==
    { Gzip(<<AmazonSeven, AmazonFive>>),
      Gzip(<<AppleThree, ZoomNine>>),
      Gzip(<<GermanAmazon, AmazonNegative>>),
      Gzip(<<AmazonNotANumber, ShortLine>>),
      <<Deflate(AmazonSeven)>> }

Running(p) == pc[p] \notin {"idle", "returned"}

\* A function returns (status "ok") or raises (status "error").
Returning(l, p, status, value) ==
    [l EXCEPT ![p].result = [status |-> status, value |-> value],
              ![p].at = Nowhere]

Return(p, status, value) ==
    /\ pc' = [pc EXCEPT ![p] = "returned"]
    /\ loc' = Returning(loc, p, status, value)

Bump(path) ==
    [completed EXCEPT ![path] = IF @ < MaxWork THEN @ + 1 ELSE @]

(***************************************************************************)
(* fetch_data                                                              *)
(***************************************************************************)
\* fetch_data without the presence check.
FetchCall_NoPresenceCheck(p, url, output_path) ==
    /\ pc[p] = "idle"
    /\ pc' = [pc EXCEPT ![p] = "f_get"]
    /\ loc' = [loc EXCEPT ![p] =
           [Idle EXCEPT !.fn = "fetch", !.url = url, !.output = output_path,
                        !.tmp = AppendTmp(output_path),
                        !.pre = [fs |-> fs, table |-> table]]]
    /\ UNCHANGED <<remote, dag, fs, table, clock, completed>>

\* Lines 39-46: the presence check, and tmp_path.
FetchCall(p, url, output_path) ==
    /\ pc[p] = "idle"
    /\ LET frame == [Idle EXCEPT !.fn = "fetch", !.url = url,
                                 !.output = output_path,
                                 !.tmp = AppendTmp(output_path),
                                 !.pre = [fs |-> fs, table |-> table]]
       IN  IF fs[output_path].exists
           THEN /\ pc' = [pc EXCEPT ![p] = "returned"]
                /\ loc' = [loc EXCEPT ![p] =
                       [frame EXCEPT !.result =
                           [status |-> "ok", value |-> output_path]]]
           ELSE /\ pc' = [pc EXCEPT ![p] = "f_get"]
                /\ loc' = [loc EXCEPT ![p] = frame]
    /\ UNCHANGED <<remote, dag, fs, table, clock, completed>>

\* tmp_path opened for update: a file that is there keeps its content.
FetchOpen_KeepsContent(p) ==
    /\ pc[p] = "f_get"
    /\ fs' = [fs EXCEPT ![loc[p].tmp] = IF @.exists THEN @ ELSE File(<< >>)]
    /\ loc' = [loc EXCEPT ![p].at = loc[p].tmp]
    /\ pc' = [pc EXCEPT ![p] = "f_write"]
    /\ UNCHANGED <<remote, dag, table, clock, completed>>

\* Lines 51-54: the request is answered with a success status and tmp_path
\* is opened for writing, which creates or truncates it.
FetchOpen(p) ==
    /\ pc[p] = "f_get"
    /\ fs' = [fs EXCEPT ![loc[p].tmp] = File(<< >>)]
    /\ loc' = [loc EXCEPT ![p].at = loc[p].tmp]
    /\ pc' = [pc EXCEPT ![p] = "f_write"]
    /\ UNCHANGED <<remote, dag, table, clock, completed>>

\* Lines 55-57: one chunk of the response is written.
FetchChunk(p) ==
    /\ pc[p] = "f_write"
    /\ loc[p].n < Len(remote[loc[p].url])
    /\ fs' = Written(p, remote[loc[p].url][loc[p].n + 1])
    /\ loc' = [loc EXCEPT ![p].n = @ + 1]
    /\ UNCHANGED <<remote, dag, table, clock, pc, completed>>

\* Lines 59-61: the file is closed, os.replace(tmp_path, output_path), and
\* the return. With nothing at tmp_path os.replace raises FileNotFoundError,
\* which the handler (lines 63-71, with nothing to unlink) raises again.
FetchReplace(p) ==
    /\ pc[p] = "f_write"
    /\ loc[p].n = Len(remote[loc[p].url])
    /\ pc' = [pc EXCEPT ![p] = "returned"]
    /\ IF fs[loc[p].tmp].exists
       THEN /\ fs' = [fs EXCEPT ![loc[p].output] = fs[loc[p].tmp],
                                ![loc[p].tmp] = NoFile]
            /\ completed' = Bump(loc[p].output)
            /\ loc' = Returning(Replaced(loc, loc[p].tmp, loc[p].output),
                                p, "ok", loc[p].output)
       ELSE /\ loc' = Returning(loc, p, "error", "FileNotFoundError")
            /\ UNCHANGED <<fs, completed>>
    /\ UNCHANGED <<remote, dag, table, clock>>

\* fetch_data's handler without the unlink.
FetchRaise_NoCleanup(p) ==
    /\ pc[p] \in {"f_get", "f_write"}
    /\ Return(p, "error", "RequestException")
    /\ UNCHANGED <<remote, dag, fs, table, clock, completed>>

\* Lines 63-71: an exception in the try block (transport failure, a
\* non-success status, a failed write): tmp_path is unlinked if it exists,
\* and the exception is raised again.
FetchRaise(p) ==
    /\ pc[p] \in {"f_get", "f_write"}
    /\ fs' = [fs EXCEPT ![loc[p].tmp] = NoFile]
    /\ pc' = [pc EXCEPT ![p] = "returned"]
    /\ loc' = Returning(Retarget(loc, loc[p].tmp, Nowhere),
                        p, "error", "RequestException")
    /\ UNCHANGED <<remote, dag, table, clock, completed>>

(***************************************************************************)
(* extract_data                                                            *)
(***************************************************************************)
\* extract_data with the presence check made before the input check.
ExtractCall_SkipFirst(p, input_gzip_path, output_text_path) ==
    /\ pc[p] = "idle"
    /\ LET frame == [Idle EXCEPT !.fn = "extract", !.input = input_gzip_path,
                                 !.output = output_text_path,
                                 !.tmp = ReplaceByTmp(output_text_path),
                                 !.pre = [fs |-> fs, table |-> table]]
       IN  IF fs[output_text_path].exists
           THEN /\ pc' = [pc EXCEPT ![p] = "returned"]
                /\ loc' = [loc EXCEPT ![p] =
                       [frame EXCEPT !.result =
                           [status |-> "ok", value |-> output_text_path]]]
           ELSE IF ~fs[input_gzip_path].exists
           THEN /\ pc' = [pc EXCEPT ![p] = "returned"]
                /\ loc' = [loc EXCEPT ![p] =
                       [frame EXCEPT !.result =
                           [status |-> "error", value |-> "FileNotFoundError"]]]
           ELSE /\ pc' = [pc EXCEPT ![p] = "x_open"]
                /\ loc' = [loc EXCEPT ![p] = frame]
    /\ UNCHANGED <<remote, dag, fs, table, clock, completed>>

\* Lines 42-57: the input check, the presence check, and tmp_path.
ExtractCall(p, input_gzip_path, output_text_path) ==
    /\ pc[p] = "idle"
    /\ LET frame == [Idle EXCEPT !.fn = "extract", !.input = input_gzip_path,
                                 !.output = output_text_path,
                                 !.tmp = ReplaceByTmp(output_text_path),
                                 !.pre = [fs |-> fs, table |-> table]]
       IN  IF ~fs[input_gzip_path].exists
           THEN /\ pc' = [pc EXCEPT ![p] = "returned"]
                /\ loc' = [loc EXCEPT ![p] =
                       [frame EXCEPT !.result =
                           [status |-> "error", value |-> "FileNotFoundError"]]]
           ELSE IF fs[output_text_path].exists
           THEN /\ pc' = [pc EXCEPT ![p] = "returned"]
                /\ loc' = [loc EXCEPT ![p] =
                       [frame EXCEPT !.result =
                           [status |-> "ok", value |-> output_text_path]]]
           ELSE /\ pc' = [pc EXCEPT ![p] = "x_open"]
                /\ loc' = [loc EXCEPT ![p] = frame]
    /\ UNCHANGED <<remote, dag, fs, table, clock, completed>>

\* Lines 67-69: gzip.open of the input, and open(tmp_path, "w"), which
\* creates or truncates it.
ExtractOpen(p) ==
    /\ pc[p] = "x_open"
    /\ fs' = [fs EXCEPT ![loc[p].tmp] = File(<< >>)]
    /\ loc' = [loc EXCEPT ![p].at = loc[p].tmp]
    /\ pc' = [pc EXCEPT ![p] = "x_copy"]
    /\ UNCHANGED <<remote, dag, table, clock, completed>>

\* Lines 71-72: one line is decompressed and written.
ExtractLine(p) ==
    /\ pc[p] = "x_copy"
    /\ LET got == GzRead(fs[loc[p].input].data, loc[p].n)
       IN  /\ got.event = "line"
           /\ fs' = Written(p, got.line)
    /\ loc' = [loc EXCEPT ![p].n = @ + 1]
    /\ UNCHANGED <<remote, dag, table, clock, pc, completed>>

\* Lines 74-78: the stream has ended and the files are closed:
\* os.replace(tmp_path, output_path). With nothing at tmp_path it raises
\* FileNotFoundError, which the handler (lines 80-85) raises again.
ExtractReplace(p) ==
    /\ pc[p] = "x_copy"
    /\ GzRead(fs[loc[p].input].data, loc[p].n).event = "eof"
    /\ pc' = [pc EXCEPT ![p] = "returned"]
    /\ IF fs[loc[p].tmp].exists
       THEN /\ fs' = [fs EXCEPT ![loc[p].output] = fs[loc[p].tmp],
                                ![loc[p].tmp] = NoFile]
            /\ completed' = Bump(loc[p].output)
            /\ loc' = Returning(Replaced(loc, loc[p].tmp, loc[p].output),
                                p, "ok", loc[p].output)
       ELSE /\ loc' = Returning(loc, p, "error", "FileNotFoundError")
            /\ UNCHANGED <<fs, completed>>
    /\ UNCHANGED <<remote, dag, table, clock>>

\* Lines 80-85, for a gzip file that ends before its trailer: the read
\* raises, tmp_path is unlinked, and the exception is raised again.
ExtractCorrupt(p) ==
    /\ pc[p] = "x_copy"
    /\ GzRead(fs[loc[p].input].data, loc[p].n).event = "error"
    /\ fs' = [fs EXCEPT ![loc[p].tmp] = NoFile]
    /\ pc' = [pc EXCEPT ![p] = "returned"]
    /\ loc' = Returning(Retarget(loc, loc[p].tmp, Nowhere), p, "error", "EOFError")
    /\ UNCHANGED <<remote, dag, table, clock, completed>>

\* Lines 80-85, for any other exception in the try block (an I/O error).
ExtractRaise(p) ==
    /\ pc[p] \in {"x_open", "x_copy"}
    /\ fs' = [fs EXCEPT ![loc[p].tmp] = NoFile]
    /\ pc' = [pc EXCEPT ![p] = "returned"]
    /\ loc' = Returning(Retarget(loc, loc[p].tmp, Nowhere), p, "error", "OSError")
    /\ UNCHANGED <<remote, dag, table, clock, completed>>

(***************************************************************************)
(* transform_data                                                          *)
(***************************************************************************)
\* transform_data without its validation.
TransformCall_NoValidation(p, input_file_path, target_hour_timestamp, companies, output_file_path) ==
    /\ pc[p] = "idle"
    /\ pc' = [pc EXCEPT ![p] = "t_scan"]
    /\ loc' = [loc EXCEPT ![p] =
           [Idle EXCEPT !.fn = "transform", !.input = input_file_path,
                        !.hour = target_hour_timestamp,
                        !.companies = companies,
                        !.output = output_file_path,
                        !.tmp = AppendTmp(output_file_path),
                        !.totals = InitTotals(companies),
                        !.pre = [fs |-> fs, table |-> table]]]
    /\ UNCHANGED <<remote, dag, fs, table, clock, completed>>

\* Lines 49-64: the validation.
TransformCall(p, input_file_path, target_hour_timestamp, companies, output_file_path) ==
    /\ pc[p] = "idle"
    /\ LET frame == [Idle EXCEPT !.fn = "transform", !.input = input_file_path,
                                 !.hour = target_hour_timestamp,
                                 !.companies = companies,
                                 !.output = output_file_path,
                                 !.tmp = AppendTmp(output_file_path),
                                 !.pre = [fs |-> fs, table |-> table]]
           raise(e) ==
               /\ pc' = [pc EXCEPT ![p] = "returned"]
               /\ loc' = [loc EXCEPT ![p] =
                      [frame EXCEPT !.result = [status |-> "error", value |-> e]]]
       IN  IF ~fs[input_file_path].exists THEN raise("FileNotFoundError")
           ELSE IF companies = {} THEN raise("ValueError")
           ELSE IF target_hour_timestamp = EmptyString THEN raise("ValueError")
           ELSE /\ pc' = [pc EXCEPT ![p] = "t_scan"]
                /\ loc' = [loc EXCEPT ![p] =
                       [frame EXCEPT !.totals = InitTotals(companies)]]
    /\ UNCHANGED <<remote, dag, fs, table, clock, completed>>

\* Lines 69-95: one line of the stream.
TransformLine(p) ==
    /\ pc[p] = "t_scan"
    /\ loc[p].n < Len(fs[loc[p].input].data)
    /\ LET line == fs[loc[p].input].data[loc[p].n + 1]
           out == LineOutcome(loc[p].totals, line)
       IN  IF out.error = "none"
           THEN /\ loc' = [loc EXCEPT ![p].totals = out.totals, ![p].n = @ + 1]
                /\ UNCHANGED pc
           ELSE Return(p, "error", out.error)
    /\ UNCHANGED <<remote, dag, fs, table, clock, completed>>

\* Lines 98-102, at the end of the stream: open(tmp_path, 'w'), which
\* creates or truncates it.
TransformScan(p) ==
    /\ pc[p] = "t_scan"
    /\ loc[p].n = Len(fs[loc[p].input].data)
    /\ loc' = [loc EXCEPT ![p].todo = CsvOf(loc[p].totals, loc[p].hour),
                          ![p].n = 0, ![p].at = loc[p].tmp]
    /\ fs' = [fs EXCEPT ![loc[p].tmp] = File(<< >>)]
    /\ pc' = [pc EXCEPT ![p] = "t_write"]
    /\ UNCHANGED <<remote, dag, table, clock, completed>>

\* Lines 106-112: one writer.writerow.
TransformRow(p) ==
    /\ pc[p] = "t_write"
    /\ loc[p].n < Len(loc[p].todo)
    /\ fs' = Written(p, loc[p].todo[loc[p].n + 1])
    /\ loc' = [loc EXCEPT ![p].n = @ + 1]
    /\ UNCHANGED <<remote, dag, table, clock, pc, completed>>

\* transform_data returning without os.replace.
TransformReplace_NoReplace(p) ==
    /\ pc[p] = "t_write"
    /\ loc[p].n = Len(loc[p].todo)
    /\ Return(p, "ok", loc[p].totals)
    /\ UNCHANGED <<remote, dag, fs, table, clock, completed>>

\* Lines 114-122: the file is closed, os.replace(tmp_path, output_path),
\* and the return. With nothing at tmp_path os.replace raises
\* FileNotFoundError.
TransformReplace(p) ==
    /\ pc[p] = "t_write"
    /\ loc[p].n = Len(loc[p].todo)
    /\ pc' = [pc EXCEPT ![p] = "returned"]
    /\ IF fs[loc[p].tmp].exists
       THEN /\ fs' = [fs EXCEPT ![loc[p].output] = fs[loc[p].tmp],
                                ![loc[p].tmp] = NoFile]
            /\ completed' = Bump(loc[p].output)
            /\ loc' = Returning(Replaced(loc, loc[p].tmp, loc[p].output),
                                p, "ok", loc[p].totals)
       ELSE /\ loc' = Returning(loc, p, "error", "FileNotFoundError")
            /\ UNCHANGED <<fs, completed>>
    /\ UNCHANGED <<remote, dag, table, clock>>

\* An exception while scanning or writing: transform_data has no handler, so
\* it propagates and whatever is at tmp_path stays.
TransformRaise(p) ==
    /\ pc[p] \in {"t_scan", "t_write"}
    /\ Return(p, "error", "OSError")
    /\ UNCHANGED <<remote, dag, fs, table, clock, completed>>

(***************************************************************************)
(* The database. A stored row is [company_name, pageviews, hour_timestamp, *)
(* created_at], its hour_timestamp the instant the inserted string names.  *)
(***************************************************************************)
\* The table created without its unique constraint.
Conflicts_Never(rows, company_name, instant) == FALSE

\* CONSTRAINT pageviews_hourly_uk UNIQUE (company_name, hour_timestamp)
Conflicts(rows, company_name, instant) ==
    \E i \in 1..Len(rows) :
        /\ rows[i].company_name = company_name
        /\ rows[i].hour_timestamp = instant

\* A delete whose WHERE clause matches no row.
DeleteStmt_Nothing(rows, target_hour_timestamp) == [ok |-> TRUE, rows |-> rows]

\* DELETE FROM pageviews_hourly WHERE hour_timestamp = %s::timestamptz
DeleteStmt(rows, target_hour_timestamp) ==
    LET target == TimestampTz(target_hour_timestamp)
        Keep(r) == r.hour_timestamp /= target.t
    IN  IF ~target.ok THEN [ok |-> FALSE, rows |-> rows]
        ELSE [ok |-> TRUE, rows |-> SelectSeq(rows, Keep)]

\* One INSERT ... VALUES (%s, %s, %s::timestamptz); created_at is NOW().
\* A failure names the row in the way: one stored before this transaction,
\* or one of this batch.
InsertStmt(rows, row, now) ==
    LET instant == TimestampTz(row.hour_timestamp)
    IN  IF ~instant.ok
        THEN [ok |-> FALSE, rows |-> rows, conflict |-> "none"]
        ELSE IF Conflicts(rows, row.company_name, instant.t)
        THEN [ok |-> FALSE, rows |-> rows,
              conflict |->
                  IF \E i \in 1..Len(rows) :
                         /\ rows[i].company_name = row.company_name
                         /\ rows[i].hour_timestamp = instant.t
                         /\ rows[i].created_at /= now
                  THEN "stored" ELSE "batch"]
        ELSE [ok |-> TRUE, conflict |-> "none",
              rows |-> Append(rows, [company_name |-> row.company_name,
                                     pageviews |-> row.pageviews,
                                     hour_timestamp |-> instant.t,
                                     created_at |-> now])]

\* The table a statement of a transaction works on (READ COMMITTED): what
\* is committed when the statement begins, without the rows the transaction
\* has deleted and with the rows it has inserted, and existing if the
\* transaction has created it. base is the committed table the transaction
\* saw at its statement before, work what it had made of it.
Rebase(committed, base, work) ==
    LET Kept(r) == ~(r \in Range(base.rows) /\ r \notin Range(work.rows))
        Own(r) == r \notin Range(base.rows)
    IN  [exists |-> committed.exists \/ work.exists,
         rows |-> SelectSeq(committed.rows, Kept) \o SelectSeq(work.rows, Own)]

\* execute_batch(cur, insert_sql, rows): the statements in order, until one
\* fails.
RECURSIVE ExecuteBatch(_, _, _)
ExecuteBatch(rows, params, now) ==
    IF Len(params) = 0 THEN [ok |-> TRUE, rows |-> rows, conflict |-> "none"]
    ELSE LET one == InsertStmt(rows, params[1], now)
         IN  IF ~one.ok THEN one
             ELSE ExecuteBatch(one.rows, Tail(params), now)

(***************************************************************************)
(* load_data                                                               *)
(***************************************************************************)
\* load_data without the check of target_hour_timestamp.
LoadCall_NoHourCheck(p, csv_file_path, target_hour_timestamp) ==
    /\ pc[p] = "idle"
    /\ LET frame == [Idle EXCEPT !.fn = "load", !.input = csv_file_path,
                                 !.hour = target_hour_timestamp,
                                 !.pre = [fs |-> fs, table |-> table],
                                 !.prev = loc[p].prev]
           finish(status, value, rows) ==
               /\ pc' = [pc EXCEPT ![p] = "returned"]
               /\ loc' = [loc EXCEPT ![p] =
                      [frame EXCEPT !.todo = rows,
                                    !.result = [status |-> status, value |-> value]]]
       IN  IF ~fs[csv_file_path].exists
           THEN finish("error", "FileNotFoundError", << >>)
           ELSE LET read == ReadCsv(fs[csv_file_path].data)
                IN  IF ~read.ok THEN finish("error", "ValueError", << >>)
                    ELSE IF Len(read.rows) = 0 THEN finish("ok", 0, << >>)
                    ELSE /\ pc' = [pc EXCEPT ![p] = "l_connect"]
                         /\ loc' = [loc EXCEPT ![p] = [frame EXCEPT !.todo = read.rows]]
    /\ UNCHANGED <<remote, dag, fs, table, clock, completed>>

\* load_data without the return for a CSV of no rows.
LoadCall_NoEmptyReturn(p, csv_file_path, target_hour_timestamp) ==
    /\ pc[p] = "idle"
    /\ LET frame == [Idle EXCEPT !.fn = "load", !.input = csv_file_path,
                                 !.hour = target_hour_timestamp,
                                 !.pre = [fs |-> fs, table |-> table],
                                 !.prev = loc[p].prev]
           finish(status, value, rows) ==
               /\ pc' = [pc EXCEPT ![p] = "returned"]
               /\ loc' = [loc EXCEPT ![p] =
                      [frame EXCEPT !.todo = rows,
                                    !.result = [status |-> status, value |-> value]]]
       IN  IF ~fs[csv_file_path].exists
           THEN finish("error", "FileNotFoundError", << >>)
           ELSE IF target_hour_timestamp = EmptyString
           THEN finish("error", "ValueError", << >>)
           ELSE LET read == ReadCsv(fs[csv_file_path].data)
                IN  IF ~read.ok THEN finish("error", "ValueError", << >>)
                    ELSE /\ pc' = [pc EXCEPT ![p] = "l_connect"]
                         /\ loc' = [loc EXCEPT ![p] = [frame EXCEPT !.todo = read.rows]]
    /\ UNCHANGED <<remote, dag, fs, table, clock, completed>>

\* Lines 57-85: the validation and the reading of the CSV.
LoadCall(p, csv_file_path, target_hour_timestamp) ==
    /\ pc[p] = "idle"
    /\ LET frame == [Idle EXCEPT !.fn = "load", !.input = csv_file_path,
                                 !.hour = target_hour_timestamp,
                                 !.pre = [fs |-> fs, table |-> table],
                                 !.prev = loc[p].prev]
           finish(status, value, rows) ==
               /\ pc' = [pc EXCEPT ![p] = "returned"]
               /\ loc' = [loc EXCEPT ![p] =
                      [frame EXCEPT !.todo = rows,
                                    !.result = [status |-> status, value |-> value]]]
       IN  IF ~fs[csv_file_path].exists
           THEN finish("error", "FileNotFoundError", << >>)
           ELSE IF target_hour_timestamp = EmptyString
           THEN finish("error", "ValueError", << >>)
           ELSE LET read == ReadCsv(fs[csv_file_path].data)
                IN  IF ~read.ok THEN finish("error", "ValueError", << >>)
                    ELSE IF Len(read.rows) = 0 THEN finish("ok", 0, << >>)
                    ELSE /\ pc' = [pc EXCEPT ![p] = "l_connect"]
                         /\ loc' = [loc EXCEPT ![p] = [frame EXCEPT !.todo = read.rows]]
    /\ UNCHANGED <<remote, dag, fs, table, clock, completed>>

\* Lines 89-93: the connection is opened and its transaction begins.
LoadConnect(p) ==
    /\ pc[p] = "l_connect"
    /\ clock < MaxClock
    /\ clock' = clock + 1
    /\ loc' = [loc EXCEPT ![p].conn = "open", ![p].work = table,
                          ![p].base = table, ![p].now = clock + 1]
    /\ pc' = [pc EXCEPT ![p] = "l_create"]
    /\ UNCHANGED <<remote, dag, fs, table, completed>>

\* Lines 89-90 failing (a missing setting, an unreachable server): raised
\* before the try block, with no connection to close.
LoadConnectRaise(p) ==
    /\ pc[p] = "l_connect"
    /\ Return(p, "error", "OperationalError")
    /\ UNCHANGED <<remote, dag, fs, table, clock, completed>>

\* The try block without its finally: the connection stays open.
Rollback_NoClose(p, e) ==
    /\ pc' = [pc EXCEPT ![p] = "returned"]
    /\ loc' = [loc EXCEPT ![p].work = NoTable, ![p].base = NoTable,
                          ![p].result = [status |-> "error", value |-> e]]

\* The try block left by an exception: the transaction is rolled back
\* (with conn), the connection closed (finally), the exception raised again.
Rollback(p, e) ==
    /\ pc' = [pc EXCEPT ![p] = "returned"]
    /\ loc' = [loc EXCEPT ![p].work = NoTable, ![p].base = NoTable,
                          ![p].conn = "closed",
                          ![p].result = [status |-> "error", value |-> e]]

\* The table the next statement of p's transaction works on.
View(p) == Rebase(table, loc[p].base, loc[p].work)

\* The table is not there for p's transaction, and another transaction has
\* created it and has not ended.
CreatedElsewhere(p) ==
    /\ ~table.exists
    /\ \E q \in Procs \ {p} : loc[q].conn = "open" /\ loc[q].work.exists

\* p's transaction has the table, found or created.
Created(p) ==
    [loc EXCEPT ![p].work = [View(p) EXCEPT !.exists = TRUE],
                ![p].base = table]

\* Lines 97-107: CREATE TABLE IF NOT EXISTS. It does nothing when the table
\* is there and creates it when it is not; when another transaction has
\* created it and has not ended, the statement waits for that transaction.
LoadCreate(p) ==
    /\ pc[p] = "l_create"
    /\ IF CreatedElsewhere(p)
       THEN /\ pc' = [pc EXCEPT ![p] = "l_create_wait"]
            /\ loc' = loc
       ELSE /\ pc' = [pc EXCEPT ![p] = "l_delete"]
            /\ loc' = Created(p)
    /\ UNCHANGED <<remote, dag, fs, table, clock, completed>>

\* Lines 97-107, the statement that has waited: the other transaction has
\* committed, and the statement fails on the catalog's unique index (the
\* existence check was made before the wait); or it was rolled back, and
\* the table is created.
LoadCreateWait(p) ==
    /\ pc[p] = "l_create_wait"
    /\ ~CreatedElsewhere(p)
    /\ IF table.exists
       THEN Rollback(p, "UniqueViolation")
       ELSE /\ pc' = [pc EXCEPT ![p] = "l_delete"]
            /\ loc' = Created(p)
    /\ UNCHANGED <<remote, dag, fs, table, clock, completed>>

\* load_data with the delete left out.
LoadDelete_Skipped(p) ==
    /\ pc[p] = "l_delete"
    /\ pc' = [pc EXCEPT ![p] = "l_insert"]
    /\ UNCHANGED <<remote, dag, fs, table, clock, loc, completed>>

\* The delete on a connection in autocommit mode: it is committed at once.
LoadDelete_Autocommit(p) ==
    /\ pc[p] = "l_delete"
    /\ LET res == DeleteStmt(loc[p].work.rows, loc[p].hour)
       IN  /\ res.ok
           /\ loc' = [loc EXCEPT ![p].work.rows = res.rows]
           /\ table' = [exists |-> TRUE, rows |-> res.rows]
           /\ pc' = [pc EXCEPT ![p] = "l_insert"]
    /\ UNCHANGED <<remote, dag, fs, clock, completed>>

\* Lines 110-123: the delete of the hour's rows.
LoadDelete(p) ==
    /\ pc[p] = "l_delete"
    /\ LET res == DeleteStmt(View(p).rows, loc[p].hour)
       IN  IF res.ok
           THEN /\ loc' = [loc EXCEPT
                       ![p].work = [View(p) EXCEPT !.rows = res.rows],
                       ![p].base = table]
                /\ pc' = [pc EXCEPT ![p] = "l_insert"]
           ELSE Rollback(p, "DataError")
    /\ UNCHANGED <<remote, dag, fs, table, clock, completed>>

\* Lines 125-137: the batch insert.
LoadInsert(p) ==
    /\ pc[p] = "l_insert"
    /\ LET res == ExecuteBatch(View(p).rows, loc[p].todo, loc[p].now)
       IN  IF res.ok
           THEN /\ loc' = [loc EXCEPT
                       ![p].work = [View(p) EXCEPT !.rows = res.rows],
                       ![p].base = table]
                /\ pc' = [pc EXCEPT ![p] = "l_commit"]
           ELSE /\ pc' = [pc EXCEPT ![p] = "returned"]
                /\ loc' = [loc EXCEPT
                       ![p].work = NoTable, ![p].base = NoTable,
                       ![p].conn = "closed",
                       ![p].conflict = res.conflict,
                       ![p].result =
                           [status |-> "error",
                            value |-> IF res.conflict = "none" THEN "DataError"
                                      ELSE "UniqueViolation"]]
    /\ UNCHANGED <<remote, dag, fs, table, clock, completed>>

\* Lines 93, 139 and 148: the with block is left by the return, which
\* commits; the connection is closed; len(rows) is returned.
LoadCommit(p) ==
    /\ pc[p] = "l_commit"
    /\ table' = View(p)
    /\ pc' = [pc EXCEPT ![p] = "returned"]
    /\ loc' = [loc EXCEPT ![p].conn = "closed", ![p].base = NoTable,
                          ![p].result = [status |-> "ok", value |-> Len(loc[p].todo)]]
    /\ UNCHANGED <<remote, dag, fs, clock, completed>>

\* Lines 141-148: a statement or the commit fails (the server goes away, a
\* lock times out).
LoadRaise(p) ==
    /\ pc[p] \in {"l_create", "l_create_wait", "l_delete", "l_insert",
                 "l_commit"}
    /\ Rollback(p, "OperationalError")
    /\ UNCHANGED <<remote, dag, fs, table, clock, completed>>

(***************************************************************************)
(* The process is killed where it stands: no handler runs, the files stay  *)
(* as they are, and the server discards the open transaction.              *)
(***************************************************************************)
Kill(p) ==
    /\ Running(p)
    /\ pc' = [pc EXCEPT ![p] = "returned"]
    /\ loc' = [loc EXCEPT ![p].work = NoTable, ![p].base = NoTable,
                          ![p].conn = IF @ = "open" THEN "lost" ELSE @,
                          ![p].at = Nowhere,
                          ![p].result = [status |-> "killed", value |-> << >>]]
    /\ UNCHANGED <<remote, dag, fs, table, clock, completed>>

Step(p) ==
    \/ FetchOpen(p) \/ FetchChunk(p) \/ FetchReplace(p) \/ FetchRaise(p)
    \/ ExtractOpen(p) \/ ExtractLine(p) \/ ExtractReplace(p)
    \/ ExtractCorrupt(p) \/ ExtractRaise(p)
    \/ TransformLine(p) \/ TransformScan(p) \/ TransformRow(p)
    \/ TransformReplace(p)
    \/ TransformRaise(p)
    \/ LoadConnect(p) \/ LoadConnectRaise(p) \/ LoadCreate(p) \/ LoadDelete(p)
    \/ LoadInsert(p) \/ LoadCommit(p) \/ LoadRaise(p)
    \/ Kill(p)

(***************************************************************************)
(* The DAG: start >> fetch_pageviews >> extract_pageviews >>               *)
(* transform_pageviews >> load_pageviews >> end, run by process 1. A task  *)
(* that fails is tried again, retries times; a run that has ended may be   *)
(* triggered again for the same data_interval_end.                         *)
(***************************************************************************)
DagTrigger ==
    /\ dag.task \in {"none", "end", "failed"}
    /\ pc[1] = "idle"
    /\ \E dt \in LogicalDates :
           dag' = [dt |-> dt, task |-> "fetch_pageviews", tries |-> 0,
                   done |-> << >>]
    /\ UNCHANGED <<remote, fs, table, clock, pc, loc, completed>>

DagFetch ==
    /\ dag.task = "fetch_pageviews"
    /\ FetchCall(1, wikimedia_url(dag.dt), raw_gzip_path(dag.dt))

DagExtract ==
    /\ dag.task = "extract_pageviews"
    /\ ExtractCall(1, raw_gzip_path(dag.dt), extracted_text_path(dag.dt))

DagTransform ==
    /\ dag.task = "transform_pageviews"
    /\ TransformCall(1, extracted_text_path(dag.dt), IsoFormat(dag.dt),
                     target_companies, transformed_csv_path(dag.dt))

DagLoad ==
    /\ dag.task = "load_pageviews"
    /\ LoadCall(1, transformed_csv_path(dag.dt), IsoFormat(dag.dt))

\* The chain with transform_pageviews set downstream of fetch_pageviews.
Downstream_SkipExtract(task) ==
    CASE task = "fetch_pageviews" -> "transform_pageviews"
      [] task = "extract_pageviews" -> "transform_pageviews"
      [] task = "transform_pageviews" -> "load_pageviews"
      [] task = "load_pageviews" -> "end"

Downstream(task) ==
    CASE task = "fetch_pageviews" -> "extract_pageviews"
      [] task = "extract_pageviews" -> "transform_pageviews"
      [] task = "transform_pageviews" -> "load_pageviews"
      [] task = "load_pageviews" -> "end"

\* The task instance has ended: downstream on success, again after a
\* failure while tries are left, and the run fails otherwise.
DagTaskDone ==
    /\ pc[1] = "returned"
    /\ pc' = [pc EXCEPT ![1] = "idle"]
    /\ loc' = [loc EXCEPT ![1] = Idle]
    /\ dag' = IF loc[1].result.status = "ok"
              THEN [dag EXCEPT !.task = Downstream(dag.task), !.tries = 0,
                               !.done = Append(@, dag.task)]
              ELSE IF dag.tries < Retries
              THEN [dag EXCEPT !.tries = @ + 1]
              ELSE [dag EXCEPT !.task = "failed", !.tries = 0]
    /\ UNCHANGED <<remote, fs, table, clock, completed>>

Init ==
    /\ remote \in [Urls -> Resources]
    /\ fs = [path \in Paths |-> NoFile]
    /\ table = NoTable
    /\ clock = 0
    /\ pc = [p \in Procs |-> "idle"]
    /\ loc = [p \in Procs |-> Idle]
    /\ dag = [dt |-> FivePm, task |-> "none", tries |-> 0, done |-> << >>]
    /\ completed = [path \in OutputPaths |-> 0]

Next ==
    \/ DagTrigger
    \/ DagFetch
    \/ DagExtract
    \/ DagTransform
    \/ DagLoad
    \/ DagTaskDone
    \/ Step(1)

Spec == Init /\ [][Next]_vars

(***************************************************************************)
(* load_data called on its own, with any CSV at csv_file_path and any      *)
(* target_hour_timestamp, from every table a sequence of such calls        *)
(* leaves.                                                                 *)
(***************************************************************************)
FiveUtc == <<17, 0, 0>>
SixPlusOne == <<18, 0, 1>>
SixUtc == <<18, 0, 0>>
NotATimestamp == <<99>>

TargetHours == {FiveUtc, SixPlusOne, SixUtc, NotATimestamp, EmptyString}

CsvFile(rows) == <<Header>> \o rows

Artifacts ==
    { CsvFile(<< >>),
      CsvFile(<<DataRow(Amazon, 5, FiveUtc), DataRow(Apple, 7, FiveUtc)>>),
      CsvFile(<<DataRow(Amazon, 7, FiveUtc)>>),
      CsvFile(<<DataRow(Amazon, 5, FiveUtc), DataRow(Amazon, 7, FiveUtc)>>),
      CsvFile(<<DataRow(Apple, 7, FiveUtc), DataRow(Amazon, 5, SixUtc)>>),
      CsvFile(<<DataRow(Amazon, 5, SixUtc)>>),
      CsvFile(<<DataRow(Amazon, 5, SixPlusOne)>>),
      CsvFile(<<[kind |-> "data", row |-> <<Amazon, <<"x">>, FiveUtc>>]>>) }

CsvPath == transformed_csv_path(FivePm)

\* The caller puts a CSV at csv_file_path.
PutCsv ==
    /\ pc[1] = "idle"
    /\ \E data \in Artifacts : fs' = [fs EXCEPT ![CsvPath] = File(data)]
    /\ loc' = [loc EXCEPT ![1].prev = NoCall]
    /\ UNCHANGED <<remote, dag, table, clock, pc, completed>>

CallLoad ==
    \E hour \in TargetHours : LoadCall(1, CsvPath, hour)

\* The caller has the result (or the exception) and goes on.
CallerResumes ==
    /\ pc[1] = "returned"
    /\ pc' = [pc EXCEPT ![1] = "idle"]
    /\ loc' = [loc EXCEPT ![1] = [Idle EXCEPT !.prev = CallBefore(loc[1])]]
    /\ UNCHANGED <<remote, dag, fs, table, clock, completed>>

InitLoad ==
    /\ remote = [url \in Urls |-> Gzip(<< >>)]
    /\ fs = [path \in Paths |-> NoFile]
    /\ table = NoTable
    /\ clock = 0
    /\ pc = [p \in Procs |-> "idle"]
    /\ loc = [p \in Procs |-> Idle]
    /\ dag = [dt |-> FivePm, task |-> "none", tries |-> 0, done |-> << >>]
    /\ completed = [path \in OutputPaths |-> 0]

NextLoad ==
    \/ PutCsv
    \/ CallLoad
    \/ CallerResumes
    \/ LoadConnect(1)
    \/ LoadConnectRaise(1)
    \/ LoadCreate(1)
    \/ LoadDelete(1)
    \/ LoadInsert(1)
    \/ LoadCommit(1)
    \/ LoadRaise(1)
    \/ Kill(1)

SpecLoad == InitLoad /\ [][NextLoad]_vars

(***************************************************************************)
(* transform_data called once by process 1, as its test calls it, on any   *)
(* text file of up to MaxLines lines (or none) with any entity set and     *)
(* hour, in a directory that is new or holds what earlier calls left; then *)
(* load_data, called by process 2 on the CSV once transform_data has       *)
(* returned.                                                               *)
(***************************************************************************)
InputLines ==
    {AmazonSeven, AmazonFive, AppleThree, GermanAmazon, ZoomNine,
     AmazonNegative, AmazonNotANumber, ShortLine}

TextFiles == UNION {[1..k -> InputLines] : k \in 0..MaxLines}

EntitySets == {{}, {Amazon}, {Apple, Amazon}, {Zoom, Apple}}

HourKeys == {FiveUtc, EmptyString}

TextPath == extracted_text_path(FivePm)

\* What an earlier call for other input has left: its CSV, and the
\* temporary file of a call that failed while writing.
EarlierCsv == CsvOf(InitTotals({Amazon}), SixUtc)

CallTransform ==
    \E hour \in HourKeys, companies \in EntitySets :
        TransformCall(1, TextPath, hour, companies, CsvPath)

CallLoadAfter ==
    /\ pc[1] = "returned"
    /\ loc[1].result.status = "ok"
    /\ \E hour \in HourKeys : LoadCall(2, CsvPath, hour)

InitTransform ==
    /\ remote = [url \in Urls |-> Gzip(<< >>)]
    /\ \E text \in {NoFile} \cup {File(data) : data \in TextFiles},
          earlier \in BOOLEAN, stale \in BOOLEAN :
           fs = [path \in Paths |->
                    IF path = TextPath THEN text
                    ELSE IF earlier /\ path = CsvPath THEN File(EarlierCsv)
                    ELSE IF stale /\ path = AppendTmp(CsvPath)
                    THEN File(SubSeq(EarlierCsv, 1, 1))
                    ELSE NoFile]
    /\ table = NoTable
    /\ clock = 0
    /\ pc = [p \in Procs |-> "idle"]
    /\ loc = [p \in Procs |-> Idle]
    /\ dag = [dt |-> FivePm, task |-> "none", tries |-> 0, done |-> << >>]
    /\ completed = [path \in OutputPaths |-> 0]

NextTransform ==
    \/ CallTransform
    \/ TransformLine(1)
    \/ TransformScan(1)
    \/ TransformRow(1)
    \/ TransformReplace(1)
    \/ TransformRaise(1)
    \/ CallLoadAfter
    \/ LoadConnect(2)
    \/ LoadConnectRaise(2)
    \/ LoadCreate(2)
    \/ LoadDelete(2)
    \/ LoadInsert(2)
    \/ LoadCommit(2)
    \/ LoadRaise(2)

SpecTransform == InitTransform /\ [][NextTransform]_vars

(***************************************************************************)
(* Two runs of the DAG for the same data_interval_end (a scheduled run and *)
(* an operator's, in processes 1 and 2) at the same file stage at the same *)
(* time: each calls the stage's function once, with the same paths, after  *)
(* the stages before it have left their outputs.                           *)
(***************************************************************************)
FileStages == {"fetch_pageviews", "extract_pageviews", "transform_pageviews"}

\* The files once the stages before task have succeeded for dt.
FilesBefore(task, served, dt) ==
    [path \in Paths |->
        IF path = raw_gzip_path(dt) /\ task /= "fetch_pageviews"
        THEN File(served)
        ELSE IF path = extracted_text_path(dt) /\ task = "transform_pageviews"
        THEN File([i \in 1..(Len(served) - 1) |-> served[i].line])
        ELSE NoFile]

RaceCall(p) ==
    \/ /\ dag.task = "fetch_pageviews"
       /\ FetchCall(p, wikimedia_url(dag.dt), raw_gzip_path(dag.dt))
    \/ /\ dag.task = "extract_pageviews"
       /\ ExtractCall(p, raw_gzip_path(dag.dt), extracted_text_path(dag.dt))
    \/ /\ dag.task = "transform_pageviews"
       /\ TransformCall(p, extracted_text_path(dag.dt), IsoFormat(dag.dt),
                        target_companies, transformed_csv_path(dag.dt))

InitRace ==
    /\ remote \in [Urls -> Resources]
    /\ \E task \in FileStages :
           /\ task = "transform_pageviews" =>
                  remote[wikimedia_url(FivePm)][Len(remote[wikimedia_url(FivePm)])].kind
                      = "eos"
           /\ dag = [dt |-> FivePm, task |-> task, tries |-> 0, done |-> << >>]
           /\ fs = FilesBefore(task, remote[wikimedia_url(FivePm)], FivePm)
    /\ table = NoTable
    /\ clock = 0
    /\ pc = [p \in Procs |-> "idle"]
    /\ loc = [p \in Procs |-> Idle]
    /\ completed = [path \in OutputPaths |-> 0]

NextRace ==
    \E p \in Procs :
        \/ RaceCall(p)
        \/ FetchOpen(p) \/ FetchChunk(p) \/ FetchReplace(p) \/ FetchRaise(p)
        \/ ExtractOpen(p) \/ ExtractLine(p) \/ ExtractReplace(p)
        \/ ExtractCorrupt(p) \/ ExtractRaise(p)
        \/ TransformLine(p) \/ TransformScan(p) \/ TransformRow(p)
        \/ TransformReplace(p) \/ TransformRaise(p)
        \/ Kill(p)

SpecRace == InitRace /\ [][NextRace]_vars

(***************************************************************************)
(* What the claims speak of.                                               *)
(***************************************************************************)
\* A stored row without created_at.
Project(r) ==
    [company_name |-> r.company_name, pageviews |-> r.pageviews,
     hour_timestamp |-> r.hour_timestamp]

\* A row as parsed from the CSV, as it is stored (without created_at).
Stored(row) ==
    [company_name |-> row.company_name, pageviews |-> row.pageviews,
     hour_timestamp |-> TimestampTz(row.hour_timestamp).t]

\* The content of a table: each row without created_at, and how often.
Content(rows) ==
    [x \in {Project(rows[i]) : i \in 1..Len(rows)} |->
        Cardinality({i \in 1..Len(rows) : Project(rows[i]) = x})]

\* The rows stored for the instant a timestamp string names.
RowsAt(rows, hour) ==
    LET AtHour(r) == r.hour_timestamp = TimestampTz(hour).t
    IN  IF TimestampTz(hour).ok THEN SelectSeq(rows, AtHour) ELSE << >>

\* The parsed rows whose hour_timestamp names the same instant as hour.
ParsedAt(params, hour) ==
    LET AtHour(row) == /\ TimestampTz(row.hour_timestamp).ok
                       /\ TimestampTz(hour).ok
                       /\ TimestampTz(row.hour_timestamp).t = TimestampTz(hour).t
    IN  SelectSeq(params, AtHour)

\* The lines of a well-formed compressed file.
Gunzip(data) == [i \in 1..(Len(data) - 1) |-> data[i].line]

WellFormed(data) == Len(data) > 0 /\ data[Len(data)].kind = "eos"

\* What a run without failures stores for dt: a row per tracked entity, in
\* the order of the CSV.
FailureFreeRows(dt) ==
    LET totals == Totals(Gunzip(remote[wikimedia_url(dt)]), target_companies)
        order == Sorted(target_companies)
    IN  [i \in 1..Len(order) |->
            [company_name |-> order[i], pageviews |-> totals[order[i]],
             hour_timestamp |-> dt.hour * 60 + dt.minute]]

ProjectAll(rows) == [i \in 1..Len(rows) |-> Project(rows[i])]

Returned(fn) == pc[1] = "returned" /\ loc[1].fn = fn

ReturnedOk(fn) == Returned(fn) /\ loc[1].result.status = "ok"

Raised(fn) == Returned(fn) /\ loc[1].result.status = "error"

(***************************************************************************)
(* C1. Re-run safety, end to end: after any sequence of runs of the DAG    *)
(* for one hour, with tasks failing, killed and tried again, whenever the  *)
(* last load_data has succeeded the table holds for that hour exactly the  *)
(* rows of a failure-free run: one per tracked entity, with its total.     *)
(***************************************************************************)
C1_RerunSafety ==
    (ReturnedOk("load") \/ dag.task = "end") =>
        ProjectAll(RowsAt(table.rows, IsoFormat(dag.dt))) = FailureFreeRows(dag.dt)

\* A later run's load has succeeded over the rows of an earlier one, after
\* the load task had failed and was tried again, the CSV having been
\* written anew.
C1_Witness ==
    /\ ReturnedOk("load")
    /\ dag.tries > 0
    /\ Len(loc[1].pre.table.rows) > 0
    /\ completed[loc[1].input] = 2
    /\ table /= loc[1].pre.table

(***************************************************************************)
(* C2. load_data is idempotent: called again with the same CSV and the     *)
(* same target_hour_timestamp after a call that succeeded, it leaves the   *)
(* table's content (created_at aside) as the first call left it, with      *)
(* exactly one row for each (company_name, hour_timestamp) of the CSV,     *)
(* carrying the CSV's pageviews; and when the CSV's rows are all of the    *)
(* target hour, the second call meets no unique violation.                 *)
(***************************************************************************)
C2_LoadIdempotent ==
    LET f == loc[1]
        params == ReadCsv(fs[f.input].data).rows
    IN  (/\ Returned("load")
         /\ f.prev.fn = "load"
         /\ f.prev.status = "ok"
         /\ f.prev.hour = f.hour) =>
            /\ Content(table.rows) = Content(f.pre.table.rows)
            /\ \A k \in 1..Len(params) :
                   /\ Cardinality({i \in 1..Len(table.rows) :
                          /\ table.rows[i].company_name = params[k].company_name
                          /\ table.rows[i].hour_timestamp =
                                 TimestampTz(params[k].hour_timestamp).t}) = 1
                   /\ \E i \in 1..Len(table.rows) :
                          Project(table.rows[i]) = Stored(params[k])
            /\ (/\ f.result.status = "error"
                /\ Len(ParsedAt(params, f.hour)) = Len(params))
                   => f.result.value /= "UniqueViolation"

\* The second of two like calls has replaced the two rows of the first:
\* the rows are new (their created_at differs), the content is the same.
C2_Witness ==
    /\ ReturnedOk("load")
    /\ loc[1].prev.status = "ok"
    /\ loc[1].prev.hour = loc[1].hour
    /\ loc[1].result.value = 2
    /\ Len(RowsAt(loc[1].pre.table.rows, loc[1].hour)) = 2
    /\ table /= loc[1].pre.table

(***************************************************************************)
(* C3. Uniqueness: whatever calls of load_data have been made, ended or    *)
(* failed, the committed table holds at most one row for each              *)
(* (company_name, hour_timestamp).                                         *)
(***************************************************************************)
C3_Uniqueness ==
    \A i, j \in 1..Len(table.rows) :
        (/\ table.rows[i].company_name = table.rows[j].company_name
         /\ table.rows[i].hour_timestamp = table.rows[j].hour_timestamp) => i = j

\* An insert has met a row stored by an earlier load and was refused.
C3_Witness ==
    /\ Raised("load")
    /\ loc[1].conflict = "stored"
    /\ Len(table.rows) >= 2

(***************************************************************************)
(* C4, as claimed. After every load_data that returns for hour H, the rows *)
(* stored for H are exactly the rows parsed from the CSV, also for a CSV   *)
(* with no data rows.                                                      *)
(***************************************************************************)
C4_AlwaysFresh ==
    ReturnedOk("load") =>
        {Project(r) : r \in Range(RowsAt(table.rows, loc[1].hour))}
            = {Stored(row) : row \in Range(loc[1].todo)}

(***************************************************************************)
(* C4, amended. After every load_data that returns for hour H with a CSV   *)
(* of at least one data row, the rows stored for H are exactly the parsed  *)
(* rows whose hour_timestamp names the instant of H, each once; with a CSV *)
(* of no data rows the table is as it was.                                 *)
(***************************************************************************)
C4_FreshForTheHour ==
    LET f == loc[1]
        stored == RowsAt(table.rows, f.hour)
        parsed == ParsedAt(f.todo, f.hour)
    IN  ReturnedOk("load") =>
            IF Len(f.todo) = 0 THEN table = f.pre.table
            ELSE /\ {Project(r) : r \in Range(stored)}
                        = {Stored(row) : row \in Range(parsed)}
                 /\ Len(stored) = Len(parsed)
                 /\ \A i \in 1..Len(stored) : stored[i].created_at = f.now

\* A load has replaced a row of its hour that held another value.
C4_Witness ==
    /\ ReturnedOk("load")
    /\ Len(loc[1].todo) > 0
    /\ \E old \in Range(RowsAt(loc[1].pre.table.rows, loc[1].hour)) :
           \A new \in Range(table.rows) : Project(new) /= Project(old)

(***************************************************************************)
(* C5, as claimed. load_data returns the number of rows parsed, and its    *)
(* insert never meets a unique violation with a row stored before the      *)
(* call, whatever the table and whatever CSV is passed with the hour.      *)
(***************************************************************************)
C5_NoConflictWithStoredRow ==
    Returned("load") =>
        /\ loc[1].result.status = "ok" => loc[1].result.value = Len(loc[1].todo)
        /\ loc[1].conflict /= "stored"

(***************************************************************************)
(* C6. The transaction of load_data: a call that does not return leaves    *)
(* the committed table as it was before the call, and raises; and the      *)
(* committed table never differs from what it was before the call unless   *)
(* the call has returned with every parsed row inserted.                   *)
(***************************************************************************)
C6_Rollback ==
    LET f == loc[1]
    IN  (pc[1] /= "idle" /\ f.fn = "load") =>
            \/ table = f.pre.table
            \/ /\ pc[1] = "returned"
               /\ f.result.status = "ok"
               /\ \A k \in 1..Len(f.todo) :
                      \E i \in 1..Len(table.rows) :
                          /\ Project(table.rows[i]) = Stored(f.todo[k])
                          /\ table.rows[i].created_at = f.now

\* The insert has failed after the delete had removed a stored row, and
\* the row is still there.
C6_Witness ==
    /\ Raised("load")
    /\ loc[1].conn = "closed"
    /\ loc[1].result.value = "UniqueViolation"
    /\ Len(RowsAt(loc[1].pre.table.rows, loc[1].hour)) > 0
    /\ table = loc[1].pre.table

(***************************************************************************)
(* C7. Atomic visibility: in every state of fetch_data, extract_data and   *)
(* transform_data, also after a failure or a kill in the middle of the     *)
(* writing, an output path holds no file or a complete artifact: the whole *)
(* download, all the lines of the dump, the whole CSV.                     *)
(***************************************************************************)
C7_AtomicVisibility ==
    \A dt \in LogicalDates :
        LET served == remote[wikimedia_url(dt)]
            gz == fs[raw_gzip_path(dt)]
            txt == fs[extracted_text_path(dt)]
            csv == fs[transformed_csv_path(dt)]
        IN  /\ gz.exists => gz.data = served
            /\ txt.exists => WellFormed(served) /\ txt.data = Gunzip(served)
            /\ csv.exists =>
                   /\ WellFormed(served)
                   /\ csv.data = CsvOf(Totals(Gunzip(served), target_companies),
                                       IsoFormat(dt))

\* A writer was killed with a part of its output written: the part is at the
\* temporary path, and nothing is at the output path.
C7_Witness ==
    /\ pc[1] = "returned"
    /\ loc[1].fn \in {"fetch", "extract", "transform"}
    /\ loc[1].result.status = "killed"
    /\ loc[1].n > 0
    /\ fs[loc[1].tmp].exists
    /\ Len(fs[loc[1].tmp].data) = loc[1].n
    /\ ~fs[loc[1].output].exists

(***************************************************************************)
(* C8. fetch_data and extract_data are idempotent: a destination is        *)
(* downloaded (decompressed) and published at most once, and a call that   *)
(* finds its destination present returns the destination's path having     *)
(* read nothing and changed no file.                                       *)
(***************************************************************************)
C8_FileStagesIdempotent ==
    /\ \A dt \in LogicalDates :
           /\ completed[raw_gzip_path(dt)] <= 1
           /\ completed[extracted_text_path(dt)] <= 1
    /\ \A fn \in {"fetch", "extract"} :
           (Returned(fn) /\ loc[1].pre.fs[loc[1].output].exists) =>
               /\ loc[1].result.status = "ok"
               /\ loc[1].result.value = loc[1].output
               /\ loc[1].n = 0
               /\ fs = loc[1].pre.fs

\* extract_data, called again in a later run, has found the text file of
\* the first run.
C8_Witness ==
    /\ ReturnedOk("extract")
    /\ loc[1].pre.fs[loc[1].output].exists
    /\ completed[loc[1].output] = 1
    /\ completed[loc[1].input] = 1

C10_WrittenOnce ==
    \A dt \in LogicalDates : completed[transformed_csv_path(dt)] <= 1

(***************************************************************************)
(* C10, amended. transform_data makes no presence check: every call that   *)
(* returns has written the whole CSV to the temporary path and put it in   *)
(* the place of the output; over a CSV written before for the same input,  *)
(* hour and entities the content is the same.                              *)
(***************************************************************************)
C10_RewrittenEachRun ==
    LET f == loc[1]
    IN  ReturnedOk("transform") =>
            /\ f.n = Len(f.todo)
            /\ f.todo = CsvOf(f.totals, f.hour)
            /\ fs[f.output] = File(f.todo)
            /\ ~fs[f.tmp].exists
            /\ f.pre.fs[f.output].exists => f.pre.fs[f.output].data = f.todo

\* A later run has written the CSV again over that of an earlier run.
C10_Witness ==
    /\ ReturnedOk("transform")
    /\ loc[1].pre.fs[loc[1].output].exists
    /\ completed[loc[1].output] = 2

(***************************************************************************)
(* C11. Aggregation: the mapping transform_data returns has the entity set *)
(* as its keys, and gives each entity the sum of the view counts of the    *)
(* lines of the input that have at least 4 tokens, the domain code "en",   *)
(* the entity as their title and a count that is an integer not below 0.   *)
(***************************************************************************)
Counts(line, e) ==
    /\ Len(line) >= 4
    /\ line[1] = en
    /\ line[2] = e
    /\ ParseInt(line[3]).ok
    /\ ParseInt(line[3]).val >= 0

RECURSIVE SumOf(_, _)
SumOf(lines, e) ==
    IF Len(lines) = 0 THEN 0
    ELSE SumOf(SubSeq(lines, 1, Len(lines) - 1), e)
         + (IF Counts(lines[Len(lines)], e) THEN ParseInt(lines[Len(lines)][3]).val
            ELSE 0)

C11_AggregationCorrect ==
    LET f == loc[1]
    IN  ReturnedOk("transform") =>
            /\ DOMAIN f.result.value = f.companies
            /\ \A e \in f.companies :
                   f.result.value[e] = SumOf(f.pre.fs[f.input].data, e)

\* Two lines of Amazon have been added up, next to an entity without lines.
C11_Witness ==
    /\ ReturnedOk("transform")
    /\ loc[1].companies = {Apple, Amazon}
    /\ loc[1].result.value[Amazon] = 12
    /\ loc[1].result.value[Apple] = 0

(***************************************************************************)
(* C12. Filtering: the pass of the loop over a line that has fewer than 4  *)
(* tokens, another domain code than "en", or a count that is negative or   *)
(* no number leaves every accumulator as it was, and raises nothing: the   *)
(* scan goes on with the next line.                                        *)
(***************************************************************************)
Filtered(line) ==
    \/ Len(line) < 4
    \/ /\ Len(line) >= 4
       /\ \/ line[1] /= en
          \/ ~ParseInt(line[3]).ok
          \/ ParseInt(line[3]).val < 0

C12_FilteredLineSkipped ==
    [][(/\ pc[1] = "t_scan"
        /\ loc[1].fn = "transform"
        /\ loc[1].n < Len(fs[loc[1].input].data)
        /\ Filtered(fs[loc[1].input].data[loc[1].n + 1]))
       => /\ loc'[1].totals = loc[1].totals
          /\ \/ pc'[1] = "t_scan" /\ loc'[1].n = loc[1].n + 1
             \/ pc'[1] = "returned" /\ loc'[1].result.value = "OSError"]_vars

\* The scan has passed a line with a negative count after one that counted.
C12_Witness ==
    /\ pc[1] = "t_scan"
    /\ loc[1].n = 2
    /\ fs[loc[1].input].data = <<AmazonSeven, AmazonNegative>>
    /\ loc[1].totals[Amazon] = 7

(***************************************************************************)
(* C13. Zero rows: after transform_data has returned, the keys of the      *)
(* mapping and the names in the data rows of the CSV are the entity set,   *)
(* one row each; an entity no line of the input counts for has total 0,    *)
(* in the mapping and in its row.                                          *)
(***************************************************************************)
C13_EveryEntityHasARow ==
    LET f == loc[1]
        rows == Tail(fs[f.output].data)
    IN  ReturnedOk("transform") =>
            /\ DOMAIN f.result.value = f.companies
            /\ Len(rows) = Cardinality(f.companies)
            /\ {rows[i].row[1] : i \in 1..Len(rows)} = f.companies
            /\ \A e \in f.companies :
                   (\A k \in 1..Len(f.pre.fs[f.input].data) :
                        ~Counts(f.pre.fs[f.input].data[k], e)) =>
                       /\ f.result.value[e] = 0
                       /\ \E i \in 1..Len(rows) :
                              rows[i].row[1] = e /\ rows[i].row[2] = <<"0">>

\* Zoom has lines in the input, Apple has none and has its row.
C13_Witness ==
    /\ ReturnedOk("transform")
    /\ loc[1].companies = {Zoom, Apple}
    /\ loc[1].result.value[Zoom] = 9
    /\ loc[1].result.value[Apple] = 0
    /\ Len(fs[loc[1].output].data) = 3

(***************************************************************************)
(* C14. Round trip: the rows load_data parses from the CSV transform_data  *)
(* has written for hour H, and inserts, are, row for row and in the CSV's  *)
(* order, (entity, total, H) over the tracked entities in ascending order  *)
(* of name: the names, the integers of the mapping, the hour string.       *)
(***************************************************************************)
IsRoundTrip(rows, totals, hour) ==
    /\ Len(rows) = Cardinality(DOMAIN totals)
    /\ \A i \in 1..Len(rows) :
           /\ rows[i].company_name \in DOMAIN totals
           /\ rows[i].pageviews = totals[rows[i].company_name]
           /\ rows[i].hour_timestamp = hour
    /\ \A i, j \in 1..Len(rows) :
           i < j => StrLess(rows[i].company_name, rows[j].company_name)

C14_RoundTrip ==
    LET t == loc[1]
        l == loc[2]
    IN  (pc[1] = "returned" /\ t.fn = "transform" /\ t.result.status = "ok") =>
            /\ ReadCsv(fs[t.output].data).ok
            /\ IsRoundTrip(ReadCsv(fs[t.output].data).rows, t.result.value, t.hour)
            /\ (pc[2] \notin {"idle", "returned"} /\ l.fn = "load") =>
                   IsRoundTrip(l.todo, t.result.value, t.hour)
            /\ (pc[2] = "returned" /\ l.fn = "load" /\ l.result.status = "ok") =>
                   /\ l.result.value = Cardinality(t.companies)
                   /\ IsRoundTrip(l.todo, t.result.value, t.hour)
                   /\ Len(table.rows) = Len(l.todo)
                   /\ \A k \in 1..Len(l.todo) :
                          Project(table.rows[k]) = Stored(l.todo[k])

\* load_data has stored the two rows transform_data wrote, one of 12 views.
C14_Witness ==
    /\ pc[1] = "returned" /\ loc[1].fn = "transform"
    /\ pc[2] = "returned" /\ loc[2].fn = "load"
    /\ loc[2].result.status = "ok"
    /\ Len(table.rows) = 2
    /\ table.rows[1].company_name = Amazon
    /\ table.rows[1].pageviews = 12
    /\ table.rows[2].company_name = Apple

(***************************************************************************)
(* C15. Validation of transform_data: called with an input path where no   *)
(* file is, with an empty entity set or with an empty hour key, it raises  *)
(* at once, having read no line, and every file, the output and the        *)
(* temporary file among them, is as it was.                                *)
(***************************************************************************)
C15_TransformValidation ==
    LET f == loc[1]
    IN  (/\ pc[1] /= "idle"
         /\ f.fn = "transform"
         /\ \/ ~f.pre.fs[f.input].exists
            \/ f.companies = {}
            \/ f.hour = EmptyString) =>
            /\ pc[1] = "returned"
            /\ f.result.status = "error"
            /\ f.result.value =
                   (IF ~f.pre.fs[f.input].exists THEN "FileNotFoundError"
                    ELSE "ValueError")
            /\ f.n = 0
            /\ fs = f.pre.fs

\* It has raised for an empty entity set, next to an earlier CSV and a
\* temporary file an earlier call left.
C15_Witness ==
    /\ Raised("transform")
    /\ loc[1].companies = {}
    /\ loc[1].result.value = "ValueError"
    /\ fs[loc[1].input].exists
    /\ fs[loc[1].output].exists
    /\ fs[loc[1].tmp].exists

(***************************************************************************)
(* C16. Validation of load_data: called with a CSV path where no file is   *)
(* or with an empty hour key, it raises at once: no connection is opened   *)
(* and the table is as it was.                                             *)
(***************************************************************************)
C16_LoadValidation ==
    LET f == loc[1]
    IN  (/\ pc[1] /= "idle"
         /\ f.fn = "load"
         /\ \/ ~f.pre.fs[f.input].exists
            \/ f.hour = EmptyString) =>
            /\ pc[1] = "returned"
            /\ f.result.status = "error"
            /\ f.result.value =
                   (IF ~f.pre.fs[f.input].exists THEN "FileNotFoundError"
                    ELSE "ValueError")
            /\ f.conn = "none"
            /\ f.now = 0
            /\ table = f.pre.table

\* It has raised for an empty hour key, with rows to load in the CSV and
\* rows in the table.
C16_Witness ==
    /\ Raised("load")
    /\ loc[1].hour = EmptyString
    /\ loc[1].result.value = "ValueError"
    /\ Len(ReadCsv(fs[loc[1].input].data).rows) > 0
    /\ Len(table.rows) > 0

(***************************************************************************)
(* C17. A CSV of no data rows: load_data returns 0, having opened no       *)
(* connection and executed no statement; the table, the rows stored for    *)
(* the hour among them, is as it was.                                      *)
(***************************************************************************)
C17_EmptyArtifactNoOp ==
    LET f == loc[1]
    IN  (/\ pc[1] /= "idle"
         /\ f.fn = "load"
         /\ f.pre.fs[f.input].exists
         /\ f.hour /= EmptyString
         /\ ReadCsv(f.pre.fs[f.input].data).ok
         /\ Len(ReadCsv(f.pre.fs[f.input].data).rows) = 0) =>
            /\ pc[1] = "returned"
            /\ f.result = [status |-> "ok", value |-> 0]
            /\ f.conn = "none"
            /\ f.now = 0
            /\ table = f.pre.table

\* It has returned 0 for an hour that has rows in the table.
C17_Witness ==
    /\ ReturnedOk("load")
    /\ loc[1].result.value = 0
    /\ TimestampTz(loc[1].hour).ok
    /\ Len(RowsAt(table.rows, loc[1].hour)) > 0

(***************************************************************************)
(* C18. The connection is released: a connection is open only while        *)
(* load_data is in its try block, and when load_data has returned or       *)
(* raised after opening one, it is closed.                                 *)
(***************************************************************************)
C18_ConnectionReleased ==
    LET f == loc[1]
    IN  (pc[1] /= "idle" /\ f.fn = "load") =>
            /\ f.conn = "open" =>
                   pc[1] \in {"l_create", "l_delete", "l_insert", "l_commit"}
            /\ (pc[1] = "returned" /\ f.result.status \in {"ok", "error"}) =>
                   f.conn = (IF f.now > 0 THEN "closed" ELSE "none")

\* A statement has failed on the server, and the connection is closed.
C18_Witness ==
    /\ Raised("load")
    /\ loc[1].result.value = "OperationalError"
    /\ loc[1].now > 0
    /\ loc[1].conn = "closed"

(***************************************************************************)
(* C19. The order of the stages in a run: a stage is called only when the  *)
(* stages before it in fetch, extract, transform, load have succeeded in   *)
(* this run, in that order, and their outputs are in place; and no two     *)
(* calls are ever active together.                                         *)
(***************************************************************************)
Stages ==
    <<"fetch_pageviews", "extract_pageviews", "transform_pageviews",
      "load_pageviews">>

StageOf(fn) ==
    CASE fn = "fetch" -> 1 [] fn = "extract" -> 2
      [] fn = "transform" -> 3 [] fn = "load" -> 4

OutputOf(k, dt) ==
    CASE k = 1 -> raw_gzip_path(dt) [] k = 2 -> extracted_text_path(dt)
      [] k = 3 -> transformed_csv_path(dt)

C19_StageOrder ==
    /\ IsPrefix(dag.done, Stages)
    /\ \A k \in 1..Len(dag.done) :
           k < 4 => fs[OutputOf(k, dag.dt)].exists
    /\ \A p, q \in Procs : (pc[p] /= "idle" /\ pc[q] /= "idle") => p = q
    /\ pc[1] /= "idle" =>
           /\ dag.task = Stages[StageOf(loc[1].fn)]
           /\ Len(dag.done) = StageOf(loc[1].fn) - 1
           /\ \A k \in 1..(StageOf(loc[1].fn) - 1) :
                  loc[1].pre.fs[OutputOf(k, dag.dt)].exists

\* load_data is at work after the three stages before it.
C19_Witness ==
    /\ pc[1] = "l_insert"
    /\ dag.done = SubSeq(Stages, 1, 3)
    /\ dag.tries > 0

(***************************************************************************)
(* C20, as claimed. Two calls of one file stage at work together for the   *)
(* same hour: whatever the interleaving, the destination holds no file or  *)
(* the complete artifact, and neither call is made to fail by what the     *)
(* other does to the temporary file: a call that has written all of its    *)
(* output finds its temporary file there to put in place.                  *)
(***************************************************************************)
C20_ConcurrentWritersSafe ==
    LET served == remote[wikimedia_url(dag.dt)]
        output == OutputOf(CHOOSE k \in 1..3 : Stages[k] = dag.task, dag.dt)
        whole == CASE dag.task = "fetch_pageviews" -> served
                   [] dag.task = "extract_pageviews" -> Gunzip(served)
                   [] dag.task = "transform_pageviews" ->
                          CsvOf(Totals(Gunzip(served), target_companies),
                                IsoFormat(dag.dt))
    IN  /\ fs[output].exists => fs[output].data = whole
        /\ \A p \in Procs :
               (pc[p] = "returned" /\ loc[p].result.status = "error") =>
                   loc[p].result.value /= "FileNotFoundError"

\* The stored rows whose hour_timestamp is another instant than hour names.
RowsNotAt(rows, hour) ==
    LET Elsewhere(r) == r.hour_timestamp /= TimestampTz(hour).t
    IN  IF TimestampTz(hour).ok THEN SelectSeq(rows, Elsewhere) ELSE rows

(***************************************************************************)
(* C21. Hour-scoped effect of load_data: a call with hour key H neither    *)
(* deletes, inserts nor modifies a row whose hour_timestamp differs from   *)
(* H: during and after the call the stored rows of every other hour are    *)
(* the ones stored when it was called, whatever CSV is passed with H.      *)
(***************************************************************************)
C21_HourScopedEffect ==
    (pc[1] /= "idle" /\ loc[1].fn = "load") =>
        RowsNotAt(table.rows, loc[1].hour)
            = RowsNotAt(loc[1].pre.table.rows, loc[1].hour)

(***************************************************************************)
(* C25. CSV layout of transform_data: the artifact is the header row       *)
(* (company_name, pageviews, hour_timestamp) followed by exactly one data  *)
(* row per tracked entity, in strictly ascending order of entity name,     *)
(* each row carrying the entity's final total and the hour key string as   *)
(* it was passed.                                                          *)
(***************************************************************************)
C25_CsvLayout ==
    LET f == loc[1]
        data == fs[f.output].data
    IN  ReturnedOk("transform") =>
            /\ Len(data) = 1 + Cardinality(f.companies)
            /\ data[1].kind = "header"
            /\ data[1].row = <<"company_name", "pageviews", "hour_timestamp">>
            /\ \A i \in 2..Len(data) :
                   /\ data[i].kind = "data"
                   /\ Len(data[i].row) = 3
                   /\ data[i].row[1] \in f.companies
                   /\ data[i].row[2]
                          = Str(SumOf(f.pre.fs[f.input].data, data[i].row[1]))
                   /\ data[i].row[3] = f.hour
            /\ \A i, j \in 2..Len(data) :
                   i < j => StrLess(data[i].row[1], data[j].row[1])

\* The CSV of two entities: Apple's row of 0 views before Zoom's of 9.
C25_Witness ==
    /\ ReturnedOk("transform")
    /\ Len(fs[loc[1].output].data) = 3
    /\ fs[loc[1].output].data[2].row = <<Apple, <<"0">>, FiveUtc>>
    /\ fs[loc[1].output].data[3].row = <<Zoom, <<"9">>, FiveUtc>>

(***************************************************************************)
(* C26. Filter order independence in transform_data: the loop with the     *)
(* check of the title against the entities made before the check of the    *)
(* domain code, the reverse of the order of lines 78-83, gives for every   *)
(* sequence of lines and every entity set the totals transform_data        *)
(* returns and the CSV it writes.                                          *)
(***************************************************************************)
\* The loop body with the two checks exchanged.
EntityFirst(totals, line) ==
    LET parts == line
    IN  IF Len(parts) < 4 THEN totals
        ELSE IF parts[2] \notin DOMAIN totals THEN totals
        ELSE IF parts[1] /= en THEN totals
        ELSE LET view_count == ParseInt(parts[3])
             IN  IF ~view_count.ok THEN totals
                 ELSE IF view_count.val < 0 THEN totals
                 ELSE [totals EXCEPT ![parts[2]] = @ + view_count.val]

RECURSIVE ScanEntityFirst(_, _)
ScanEntityFirst(totals, lines) ==
    IF Len(lines) = 0 THEN totals
    ELSE ScanEntityFirst(EntityFirst(totals, lines[1]), Tail(lines))

C26_FilterOrderIndependent ==
    LET f == loc[1]
        other == ScanEntityFirst([company \in f.companies |-> 0],
                                 f.pre.fs[f.input].data)
    IN  ReturnedOk("transform") =>
            /\ f.result.value = other
            /\ fs[f.output].data = CsvOf(other, f.hour)

\* A line of a tracked title under another domain code, which the two
\* orders drop at different checks, next to one that counts.
C26_Witness ==
    /\ ReturnedOk("transform")
    /\ loc[1].pre.fs[loc[1].input].data = <<GermanAmazon, AmazonSeven>>
    /\ loc[1].companies = {Amazon}
    /\ loc[1].result.value[Amazon] = 7

(***************************************************************************)
(* A file stage called once on its own, by process 1, over any files: its  *)
(* input there or not, an artifact of an earlier run at its destination or *)
(* none, and at its tmp_path nothing or what a killed call left behind.    *)
(***************************************************************************)
TmpOf(k, dt) ==
    CASE k = 1 -> AppendTmp(raw_gzip_path(dt))
      [] k = 2 -> ReplaceByTmp(extracted_text_path(dt))
      [] k = 3 -> AppendTmp(transformed_csv_path(dt))

\* What an earlier run left at the destination of stage k.
EarlierArtifact(k) ==
    CASE k = 1 -> Gzip(<<ZoomNine>>)
      [] k = 2 -> <<ZoomNine>>
      [] k = 3 -> EarlierCsv

\* What a call killed while writing left at tmp_path: the start of an
\* artifact, here of another content of the source than the present one.
StaleTmp(k) ==
    CASE k = 1 -> <<Deflate(ZoomNine), Deflate(ZoomNine), Deflate(ZoomNine),
                    Deflate(ZoomNine)>>
      [] k = 2 -> <<ZoomNine, ZoomNine, ZoomNine, ZoomNine>>
      [] k = 3 -> <<Header, DataRow(Zoom, 9, SixUtc), DataRow(Zoom, 9, SixUtc),
                    DataRow(Zoom, 9, SixUtc)>>

InitStage ==
    /\ remote \in [Urls -> Resources]
    /\ \E k \in 1..3, input \in BOOLEAN, earlier \in BOOLEAN, stale \in BOOLEAN :
           LET served == remote[wikimedia_url(FivePm)]
           IN  /\ k = 3 => served[Len(served)].kind = "eos"
               /\ dag = [dt |-> FivePm, task |-> Stages[k], tries |-> 0,
                         done |-> << >>]
               /\ fs = [path \in Paths |->
                           IF path = OutputOf(k, FivePm)
                           THEN IF earlier THEN File(EarlierArtifact(k))
                                ELSE NoFile
                           ELSE IF path = TmpOf(k, FivePm)
                           THEN IF stale THEN File(StaleTmp(k)) ELSE NoFile
                           ELSE IF input
                           THEN FilesBefore(Stages[k], served, FivePm)[path]
                           ELSE NoFile]
    /\ table = NoTable
    /\ clock = 0
    /\ pc = [p \in Procs |-> "idle"]
    /\ loc = [p \in Procs |-> Idle]
    /\ completed = [path \in OutputPaths |-> 0]

NextStage ==
    \/ RaceCall(1)
    \/ FetchOpen(1) \/ FetchChunk(1) \/ FetchReplace(1) \/ FetchRaise(1)
    \/ ExtractOpen(1) \/ ExtractLine(1) \/ ExtractReplace(1)
    \/ ExtractCorrupt(1) \/ ExtractRaise(1)
    \/ TransformLine(1) \/ TransformScan(1) \/ TransformRow(1)
    \/ TransformReplace(1) \/ TransformRaise(1)
    \/ Kill(1)

SpecStage == InitStage /\ [][NextStage]_vars

(***************************************************************************)
(* C24. Decoder precondition order: extract_data called with no file at    *)
(* the compressed input path fails with FileNotFoundError, also when the   *)
(* destination text file is there (the check comes before the skip), and   *)
(* touches no file; with the input and the destination both there it       *)
(* returns the destination path having decompressed nothing.               *)
(***************************************************************************)
C24_InputCheckBeforeSkip ==
    LET f == loc[1]
    IN  (pc[1] /= "idle" /\ f.fn = "extract") =>
            /\ ~f.pre.fs[f.input].exists =>
                   /\ Raised("extract")
                   /\ f.result.value = "FileNotFoundError"
                   /\ f.n = 0
                   /\ fs = f.pre.fs
            /\ (f.pre.fs[f.input].exists /\ f.pre.fs[f.output].exists) =>
                   /\ ReturnedOk("extract")
                   /\ f.result.value = f.output
                   /\ f.n = 0
                   /\ fs = f.pre.fs

\* The call has failed for the missing input although the text file of an
\* earlier run is at the destination.
C24_Witness ==
    /\ Raised("extract")
    /\ ~loc[1].pre.fs[loc[1].input].exists
    /\ loc[1].pre.fs[loc[1].output].exists
    /\ loc[1].result.value = "FileNotFoundError"

(***************************************************************************)
(* C27. Recovery from an interrupted write: a call of fetch_data,          *)
(* extract_data or transform_data that finds the temporary file of a       *)
(* killed earlier call at its tmp_path, and no file at its destination,    *)
(* does not take the idempotent skip; it writes the temporary file from    *)
(* the start, so that this holds what the call has written so far and      *)
(* nothing else, and when it succeeds the destination holds exactly the    *)
(* artifact a first attempt produces, and the temporary file is gone.      *)
(***************************************************************************)
\* The lines gzip.open yields from a compressed file, cut short or not.
Decoded(data) ==
    LET IsDeflate(chunk) == chunk.kind = "deflate"
        chunks == SelectSeq(data, IsDeflate)
    IN  [i \in 1..Len(chunks) |-> chunks[i].line]

\* Everything a call without failure writes, in order.
WholeArtifact(f) ==
    CASE f.fn = "fetch" -> remote[f.url]
      [] f.fn = "extract" -> Decoded(f.pre.fs[f.input].data)
      [] f.fn = "transform" ->
             CsvOf(Totals(f.pre.fs[f.input].data, f.companies), f.hour)

C27_RecoversFromStaleTmp ==
    LET f == loc[1]
    IN  ( /\ pc[1] /= "idle"
          /\ f.fn \in {"fetch", "extract", "transform"}
          /\ f.pre.fs[f.tmp].exists
          /\ ~f.pre.fs[f.output].exists ) =>
            /\ pc[1] \in {"f_write", "x_copy", "t_write"} =>
                   /\ fs[f.tmp].exists
                   /\ fs[f.tmp].data = SubSeq(WholeArtifact(f), 1, f.n)
            /\ ReturnedOk(f.fn) =>
                   /\ completed[f.output] = 1
                   /\ fs[f.output] = File(WholeArtifact(f))
                   /\ ~fs[f.tmp].exists

\* fetch_data has published the whole resource although the four chunks of
\* a killed call were at tmp_path when it was called.
C27_Witness ==
    /\ ReturnedOk("fetch")
    /\ loc[1].pre.fs[loc[1].tmp] = File(StaleTmp(1))
    /\ ~loc[1].pre.fs[loc[1].output].exists
    /\ Len(fs[loc[1].output].data) = 3
    /\ fs[loc[1].output].data = remote[loc[1].url]

(***************************************************************************)
(* The paths and the hour key of a run, derived from its logical date: two *)
(* invocations, each for any data_interval_end of three hours of the day,  *)
(* on the hour (a scheduled run) or within it (a run triggered by hand).   *)
(***************************************************************************)
DataIntervalEnds ==
    {[hour |-> h, minute |-> m] : h \in {16, 17, 18}, m \in {0, 15, 30, 45}}

\* build_paths: the paths by year, month, day and hour, hour_iso the whole
\* timestamp; the templates of the DAG file derive the same.
build_paths(dt) ==
    [gzip_path |-> raw_gzip_path(dt),
     txt_path |-> extracted_text_path(dt),
     csv_path |-> transformed_csv_path(dt),
     hour_iso |-> IsoFormat(dt)]

BuildPaths(p) ==
    /\ pc[p] = "idle"
    /\ \E dt \in DataIntervalEnds :
           loc' = [loc EXCEPT ![p] =
                      [Idle EXCEPT !.fn = "build_paths",
                                   !.hour = IsoFormat(dt),
                                   !.result = [status |-> "ok",
                                               value |-> build_paths(dt)]]]
    /\ pc' = [pc EXCEPT ![p] = "returned"]
    /\ UNCHANGED <<remote, dag, fs, table, clock, completed>>

InitPaths ==
    /\ remote = [url \in Urls |-> Gzip(<< >>)]
    /\ fs = [path \in Paths |-> NoFile]
    /\ table = NoTable
    /\ clock = 0
    /\ pc = [p \in Procs |-> "idle"]
    /\ loc = [p \in Procs |-> Idle]
    /\ dag = [dt |-> FivePm, task |-> "none", tries |-> 0, done |-> << >>]
    /\ completed = [path \in OutputPaths |-> 0]

NextPaths == \E p \in Procs : BuildPaths(p)

SpecPaths == InitPaths /\ [][NextPaths]_vars

(***************************************************************************)
(* C23, as claimed. Artifact paths are keyed by hour: for two invocations  *)
(* whose hour keys (the ISO strings passed to transform and load) differ,  *)
(* the raw, the extracted and the transformed path of the one differ from  *)
(* those of the other.                                                     *)
(***************************************************************************)
C23_PathsKeyedByHour ==
    \A p, q \in Procs :
        ( /\ pc[p] = "returned" /\ loc[p].fn = "build_paths"
          /\ pc[q] = "returned" /\ loc[q].fn = "build_paths"
          /\ loc[p].result.value.hour_iso /= loc[q].result.value.hour_iso ) =>
            /\ loc[p].result.value.gzip_path /= loc[q].result.value.gzip_path
            /\ loc[p].result.value.txt_path /= loc[q].result.value.txt_path
            /\ loc[p].result.value.csv_path /= loc[q].result.value.csv_path

(***************************************************************************)
(* Two load_data calls at work together, each in its own transaction:      *)
(* process 1 for the hour of FivePm and process 2 for the hour of SixPm,   *)
(* each with a CSV transform_data has written for its own hour, over a     *)
(* database where the table is not yet there, is empty, or holds the rows  *)
(* of earlier loads. Their hours differing, the two transactions never     *)
(* delete or insert a row of the same key.                                 *)
(***************************************************************************)
HourOf(p) == IF p = 1 THEN FivePm ELSE SixPm

StoredRow(company_name, pageviews, hour) ==
    [company_name |-> company_name, pageviews |-> pageviews,
     hour_timestamp |-> TimestampTz(hour).t, created_at |-> 0]

EarlierTables ==
    { NoTable,
      [exists |-> TRUE, rows |-> << >>],
      [exists |-> TRUE,
       rows |-> <<StoredRow(Amazon, 1, FiveUtc), StoredRow(Amazon, 2, SixUtc),
                  StoredRow(Apple, 3, <<16, 0, 0>>)>>] }

\* The CSVs transform_data may have written for dt.
ArtifactsFor(dt) ==
    { CsvFile(<<DataRow(Amazon, 5, IsoFormat(dt)),
                DataRow(Apple, 7, IsoFormat(dt))>>),
      CsvFile(<<DataRow(Amazon, 7, IsoFormat(dt))>>) }

RaceLoad(p) ==
    LoadCall(p, transformed_csv_path(HourOf(p)), IsoFormat(HourOf(p)))

InitLoadRace ==
    /\ remote = [url \in Urls |-> Gzip(<< >>)]
    /\ \E five \in ArtifactsFor(FivePm), six \in ArtifactsFor(SixPm) :
           fs = [path \in Paths |->
                    IF path = transformed_csv_path(FivePm) THEN File(five)
                    ELSE IF path = transformed_csv_path(SixPm) THEN File(six)
                    ELSE NoFile]
    /\ table \in EarlierTables
    /\ clock = 0
    /\ pc = [p \in Procs |-> "idle"]
    /\ loc = [p \in Procs |-> Idle]
    /\ dag = [dt |-> FivePm, task |-> "load_pageviews", tries |-> 0,
              done |-> << >>]
    /\ completed = [path \in OutputPaths |-> 0]

NextLoadRace ==
    \E p \in Procs :
        \/ RaceLoad(p)
        \/ LoadConnect(p) \/ LoadConnectRaise(p)
        \/ LoadCreate(p) \/ LoadCreateWait(p)
        \/ LoadDelete(p) \/ LoadInsert(p) \/ LoadCommit(p)
        \/ LoadRaise(p)
        \/ Kill(p)

SpecLoadRace == InitLoadRace /\ [][NextLoadRace]_vars

(***************************************************************************)
(* C22, as claimed. Concurrent loads for different hours are independent:  *)
(* for two load_data transactions with distinct hour keys, each with the   *)
(* artifact of its own hour, every interleaving of their steps leaves the  *)
(* table content that running them one after the other leaves, in either   *)
(* order, and neither makes the other fail: a call fails only for the      *)
(* server's or the connection's sake.                                      *)
(***************************************************************************)
\* The rows one load_data for p's hour, running alone, makes of rows.
LoadedAlone(rows, p) ==
    ExecuteBatch(DeleteStmt(rows, IsoFormat(HourOf(p))).rows,
                 ReadCsv(fs[transformed_csv_path(HourOf(p))].data).rows, 0).rows

C22_ConcurrentLoadsIndependent ==
    /\ \A p \in Procs :
           (pc[p] = "returned" /\ loc[p].fn = "load"
               /\ loc[p].result.status = "error") =>
               loc[p].result.value = "OperationalError"
    /\ ( /\ \A p \in Procs :
                /\ pc[p] = "returned" /\ loc[p].fn = "load"
                /\ loc[p].result.status = "ok"
         /\ loc[1].pre.table = loc[2].pre.table ) =>
           /\ Content(table.rows)
                  = Content(LoadedAlone(LoadedAlone(loc[1].pre.table.rows, 1), 2))
           /\ Content(table.rows)
                  = Content(LoadedAlone(LoadedAlone(loc[1].pre.table.rows, 2), 1))

====
